---- MODULE Spec2Model ----
(***************************************************************************)
(* WasteSensFW: the application state machine (SmartWasteApp), the GPRS    *)
(* transport manager (GprsManager), the MQTT session service (MqttService) *)
(* and the modem HAL, driven through their public operations, with the     *)
(* radio link, the broker socket and the millisecond clock as environment. *)
(*                                                                         *)
(* Every method is an operator from the state record before the call (and  *)
(* the outcomes `e` the libraries produce during it) to the state record   *)
(* after it; field `ret` holds the method's return value and field `calls` *)
(* the collaborator calls made so far by the running operation.            *)
(***************************************************************************)
EXTENDS Integers, Sequences, FiniteSets, TLC

VARIABLES
    appState,             \* SmartWasteApp::_state
    lastPublishTime,      \* SmartWasteApp::_lastPublishTime
    publishInterval,      \* SmartWasteApp::_publishInterval
    initialized,          \* SmartWasteApp::_initialized
    firstRun,             \* SmartWasteApp::_firstRun
    lastReadings,         \* SmartWasteApp::_lastReadings (timestamp, never read, left out)
    modemStatus,          \* ModemHAL::_status
    gprsState,            \* GprsManager::_state
    mqttState,            \* MqttService::_state
    lastReconnectAttempt, \* MqttService::_lastReconnectAttempt
    mqttClient,           \* MqttService::_mqtt != nullptr
    now,                  \* millis()
    netRegistered,        \* TinyGsm::isNetworkConnected()
    gprsAttached,         \* TinyGsm::isGprsConnected()
    sockConnected,        \* PubSubClient::connected()
    hung,                 \* the running operation never returns
    op,                   \* the operation that ran last
    ret,                  \* its return value
    calls,                \* the collaborator calls it made, in order
    sent,                 \* the transmissions it made: PubSubClient::publish's
                          \* arguments and result
    trashCanHeight,       \* SmartWasteApp::_trashCanHeight, in cm
    samples,              \* what US100Driver::measureDistanceCm returned during
                          \* the last averaged measurement, in order
    elapsed,              \* the time that really passed since the clock read
                          \* _lastPublishTime (history, not read by the program)
    sinceAttempt,         \* the time that really passed since the clock read
                          \* _lastReconnectAttempt (history, likewise)
    gpsBuild,             \* the firmware was compiled with GPS_ENABLED set to 1
    gpsEnabled,           \* GpsHAL::_enabled
    gpsLoc                \* the GpsLocation GpsHAL::getLocation returned last

vars == <<appState, lastPublishTime, publishInterval, initialized, firstRun,
          lastReadings, modemStatus, gprsState, mqttState, lastReconnectAttempt,
          mqttClient, now, netRegistered, gprsAttached, sockConnected, hung,
          op, ret, calls, sent, trashCanHeight, samples, elapsed, sinceAttempt,
          gpsBuild, gpsEnabled, gpsLoc>>

(***************************************************************************)
(* Program constants.                                                      *)
(***************************************************************************)
PUBLISH_INTERVAL_MS == 1000

MQTT_RECONNECT_DELAY_MS == 10000

ERROR_RETRY_DELAY_MS == 10000

TRASH_CAN_HEIGHT_CM == 120

SENSOR_MIN_DISTANCE_CM == 2

SENSOR_MAX_DISTANCE_CM == 400

SIMULATED_BATTERY_LEVEL == 100

SIM_READY == 1

\* DEFAULT_LATITUDE, DEFAULT_LONGITUDE in units of 1e-4 degree
DEFAULT_LATITUDE == 247136

DEFAULT_LONGITUDE == 466753

GPS_TIMEOUT_MS == 30000

\* the delay(2000) between two polls of getLocation()
GPS_POLL_DELAY_MS == 2000

DEVICE_ID == "smartwaste_001"

MQTT_TOPIC_PREFIX == "smartwaste"

MQTT_TOPIC_SUFFIX == "data"

(***************************************************************************)
(* Bounds of the model.  The clock is an unsigned counter of ClockBits     *)
(* bits (uint32_t in the firmware; the width is scaled to what the checker *)
(* can enumerate), it advances in steps of ClockStep ms and the model      *)
(* stops the clock after MaxClockSteps steps.                              *)
(***************************************************************************)
ClockBits == 16

ClockStep == 5000

MaxClockSteps == 3

AltInterval == 15000

\* the number of samples of an averaged measurement (ULTRASONIC_NUM_SAMPLES,
\* which the sources under src/ do not define)
NumSamples == 2

\* a second container height, besides TRASH_CAN_HEIGHT_CM
AltHeight == 7

ClockMod == 2 ^ ClockBits

MaxClock == ClockStep * MaxClockSteps

\* the time that passes while the clock goes from reading a to reading b,
\* when that is less than one turn of the clock
Forward(a, b) == IF b >= a THEN b - a ELSE b - a + ClockMod

\* a duration, recorded up to one turn of the clock: longer ones count as one
\* turn
Saturated(t) == IF t > ClockMod THEN ClockMod ELSE t

\* mutant: the difference is taken as a signed number
M_USub_Signed(a, b) == a - b

\* unsigned subtraction a - b of two clock values
USub(a, b) == (a - b + ClockMod) % ClockMod

\* unsigned addition
UAdd(a, b) == (a + b) % ClockMod

AppStates == {"INIT", "IDLE", "READING_SENSORS", "PUBLISHING", "ERROR", "SLEEP"}

LinkStates == {"DISCONNECTED", "CONNECTING", "CONNECTED", "ERROR"}

ModemStates == {"OFF", "INITIALIZING", "READY", "ERROR"}

\* values setPublishInterval is called with (uint32_t, not validated)
Intervals == {0, PUBLISH_INTERVAL_MS, AltInterval}

\* a float distance in cm, kept exactly as the fraction num / den (den > 0)
Q(n, d) == [num |-> n, den |-> d]

\* the whole number of centimetres n
Cm(n) == Q(n, 1)


\* what US100Driver::measureDistanceCm returns, in cm: -1 (no echo within the
\* timeout) or a positive distance
SampleValues == {-1, 1, 3, 59, 60, 400, 401}

\* the results of the measurements of one averaged measurement
SampleSeqs == [1..NumSamples -> SampleValues]

\* every measurement returns the same value v
AllSamples(v) == [i \in 1..NumSamples |-> v]

\* the measurements met by the application as a whole: no echo at all, or a
\* steady 60 cm
AppSamples == {AllSamples(-1), AllSamples(60)}

\* values setTrashCanHeight is called with
Heights == {TRASH_CAN_HEIGHT_CM, AltHeight}

(***************************************************************************)
(* What the libraries answer during one operation.                         *)
(*   at      modem's answer to AT / TinyGsm::init: "ok", "fail", or        *)
(*           "silent" (testAT never succeeds)                              *)
(*   sim     TinyGsm::getSimStatus()                                       *)
(*   reg     TinyGsm::waitForNetwork registers within the timeout          *)
(*   attach  TinyGsm::gprsConnect succeeds                                 *)
(*   broker  PubSubClient::connect succeeds                                *)
(*   pub     PubSubClient::publish: "ok", "fail" (still connected),        *)
(*           "lost" (the connection is gone, state() < 0)                  *)
(*   loopDrop PubSubClient::loop finds the connection gone                 *)
(*   smp     US100Driver::measureDistanceCm, measurement by measurement    *)
(*   sensor  the distance sensor answers the probe of SensorHAL::init      *)
(*   gpsOn   TinyGsm::enableGPS succeeds                                   *)
(*   fixAfter the number of polls of TinyGsm::getGPS that fail before one  *)
(*           succeeds, NoFix when none ever does                           *)
(*   fixPos  the coordinates of that fix                                   *)
(* The last three are read by the GPS_ENABLED build only.                  *)
(***************************************************************************)
\* no poll of getGPS ever succeeds
NoFix == -1

\* coordinates a fix can carry, in units of 1e-4 degree; the first
\* coincides with the configured default
Riyadh == [latitude |-> DEFAULT_LATITUDE, longitude |-> DEFAULT_LONGITUDE]

London == [latitude |-> 515074, longitude |-> -1278]

NullIsland == [latitude |-> 0, longitude |-> 0]

FixPositions == {Riyadh, London, NullIsland}

Outcomes ==
    [at : {"ok", "fail", "silent"}, sim : {0, 1}, reg : BOOLEAN,
     attach : BOOLEAN, broker : BOOLEAN, pub : {"ok", "fail", "lost"},
     loopDrop : BOOLEAN, smp : AppSamples, sensor : BOOLEAN,
     gpsOn : {TRUE}, fixAfter : {NoFix}, fixPos : {Riyadh}]

\* outcomes of an operation that only touches the network stack
NetOutcomes ==
    {e \in Outcomes : e.at = "ok" /\ e.sim = 1 /\ e.smp = AllSamples(60) /\ e.sensor
                      /\ e.pub = "ok" /\ e.loopDrop = FALSE
                      /\ (~e.reg => e.attach /\ e.broker)
                      /\ (~e.attach => e.broker)}

Log(s, c) == [s EXCEPT !.calls = Append(@, c)]

Return(s, v) == [s EXCEPT !.ret = v]

(***************************************************************************)
(* SIM7000Driver / ModemHAL                                                *)
(***************************************************************************)
\* SIM7000Driver::initModem: loops on testAT until the modem answers
InitModem(s, e) ==
    IF e.at = "silent" THEN [s EXCEPT !.hung = TRUE]
    ELSE Return(s, e.at = "ok")

ModemInit(s, e) ==
    LET s1 == Log([s EXCEPT !.modemStatus = "INITIALIZING"], "modem.init")
        s2 == InitModem(s1, e)
    IN  IF s2.hung THEN s2
        ELSE IF ~s2.ret THEN Return([s2 EXCEPT !.modemStatus = "ERROR"], FALSE)
        ELSE Return([s2 EXCEPT !.modemStatus = "READY"], TRUE)

ModemIsReady(s) == s.modemStatus = "READY"

\* SIM_PIN is "", so a locked SIM is never unlocked
CheckSim(s, e) == Return(Log(s, "modem.checkSim"), e.sim = SIM_READY)

ModemRestart(s, e) ==
    LET s1 == Log([s EXCEPT !.modemStatus = "INITIALIZING"], "modem.restart")
        s2 == InitModem(s1, e)
    IN  IF s2.hung THEN s2
        ELSE IF s2.ret THEN [s2 EXCEPT !.modemStatus = "READY"]
        ELSE [s2 EXCEPT !.modemStatus = "ERROR"]

(***************************************************************************)
(* TinyGsm (the modem library), by its contract                            *)
(***************************************************************************)
\* waits until registered or the timeout: true iff registered at the end
TinyWaitForNetwork(s, e) ==
    LET r == s.netRegistered \/ e.reg
    IN  Return([Log(s, "modem.waitForNetwork") EXCEPT !.netRegistered = r], r)

\* attaches the packet bearer; a failed attach leaves the bearer down
TinyGprsConnect(s, e) ==
    LET r == e.attach /\ s.netRegistered
    IN  Return([Log(s, "modem.gprsConnect") EXCEPT !.gprsAttached = r], r)

(***************************************************************************)
(* GprsManager                                                             *)
(***************************************************************************)
GprsWaitForNetwork(s, e) ==
    LET s1 == TinyWaitForNetwork(s, e)
    IN  IF ~s1.ret THEN Return(s1, FALSE)
        ELSE IF ~s1.netRegistered THEN Return(s1, FALSE)
        ELSE Return(s1, TRUE)

\* mutant: a failed registration returns without recording the fault
M_GprsConnect_LeavesConnecting(s, e) ==
    LET s0 == Log(s, "gprs.connect")
    IN  IF ~ModemIsReady(s0)
        THEN Return([s0 EXCEPT !.gprsState = "ERROR"], FALSE)
        ELSE LET s1 == GprsWaitForNetwork([s0 EXCEPT !.gprsState = "CONNECTING"], e)
             IN  IF ~s1.ret
                 THEN Return(s1, FALSE)
                 ELSE LET s2 == TinyGprsConnect(s1, e)
                      IN  IF ~s2.ret
                          THEN Return([s2 EXCEPT !.gprsState = "ERROR"], FALSE)
                          ELSE IF ~s2.gprsAttached
                          THEN Return([s2 EXCEPT !.gprsState = "ERROR"], FALSE)
                          ELSE Return([s2 EXCEPT !.gprsState = "CONNECTED"], TRUE)

GprsConnect(s, e) ==
    LET s0 == Log(s, "gprs.connect")
    IN  IF ~ModemIsReady(s0)
        THEN Return([s0 EXCEPT !.gprsState = "ERROR"], FALSE)
        ELSE LET s1 == GprsWaitForNetwork([s0 EXCEPT !.gprsState = "CONNECTING"], e)
             IN  IF ~s1.ret
                 THEN Return([s1 EXCEPT !.gprsState = "ERROR"], FALSE)
                 ELSE LET s2 == TinyGprsConnect(s1, e)
                      IN  IF ~s2.ret
                          THEN Return([s2 EXCEPT !.gprsState = "ERROR"], FALSE)
                          ELSE IF ~s2.gprsAttached
                          THEN Return([s2 EXCEPT !.gprsState = "ERROR"], FALSE)
                          ELSE Return([s2 EXCEPT !.gprsState = "CONNECTED"], TRUE)

\* modem.gprsDisconnect() takes the bearer down; the broker socket goes with
\* it unless keepSock
GprsDisconnect(s, keepSock) ==
    [Log(s, "gprs.disconnect") EXCEPT !.gprsAttached = FALSE,
                                      !.sockConnected = @ /\ keepSock,
                                      !.gprsState = "DISCONNECTED"]

\* mutant: the recorded state is trusted
M_GprsIsConnected_Cached(s) == Return(s, s.gprsState = "CONNECTED")

\* mutant: the bearer is asked whatever the recorded state
M_GprsIsConnected_AsksBearer(s) ==
    LET connected == s.gprsAttached
    IN  IF ~connected /\ s.gprsState = "CONNECTED"
        THEN Return([s EXCEPT !.gprsState = "DISCONNECTED"], FALSE)
        ELSE Return(s, connected)

GprsIsConnected(s) ==
    IF s.gprsState # "CONNECTED" THEN Return(s, FALSE)
    ELSE LET connected == s.gprsAttached
         IN  IF ~connected
             THEN Return([s EXCEPT !.gprsState = "DISCONNECTED"], FALSE)
             ELSE Return(s, TRUE)

\* mutant: a failed attach is tried once more before giving up
M_GprsEnsureConnection_RetriesAttach(s, e) ==
    LET s0 == GprsIsConnected(Log(s, "gprs.ensureConnection"))
    IN  IF s0.ret THEN Return(s0, TRUE)
        ELSE
        LET s1 == IF ~s0.netRegistered THEN GprsWaitForNetwork(s0, e)
                  ELSE Return(s0, TRUE)
        IN  IF ~s1.ret THEN Return(s1, FALSE)
            ELSE
            LET s2 == IF ~s1.gprsAttached THEN TinyGprsConnect(s1, e)
                      ELSE Return(s1, TRUE)
                s3 == IF ~s2.ret THEN TinyGprsConnect(s2, e) ELSE s2
            IN  IF ~s3.ret
                THEN Return([s3 EXCEPT !.gprsState = "ERROR"], FALSE)
                ELSE Return([s3 EXCEPT !.gprsState = "CONNECTED"], TRUE)

GprsEnsureConnection(s, e) ==
    LET s0 == GprsIsConnected(Log(s, "gprs.ensureConnection"))
    IN  IF s0.ret THEN Return(s0, TRUE)
        ELSE
        LET s1 == IF ~s0.netRegistered THEN GprsWaitForNetwork(s0, e)
                  ELSE Return(s0, TRUE)
        IN  IF ~s1.ret THEN Return(s1, FALSE)
            ELSE
            LET s2 == IF ~s1.gprsAttached THEN TinyGprsConnect(s1, e)
                      ELSE Return(s1, TRUE)
            IN  IF ~s2.ret
                THEN Return([s2 EXCEPT !.gprsState = "ERROR"], FALSE)
                ELSE Return([s2 EXCEPT !.gprsState = "CONNECTED"], TRUE)

(***************************************************************************)
(* PubSubClient (the MQTT library), by its contract                        *)
(***************************************************************************)
\* opens the broker connection over the bearer
PubSubConnect(s, e) ==
    LET r == e.broker /\ s.gprsAttached
    IN  Return([Log(s, "pubsub.connect") EXCEPT !.sockConnected = r], r)

\* services the connection; may find it gone
PubSubLoop(s, e) ==
    IF e.loopDrop THEN [s EXCEPT !.sockConnected = FALSE] ELSE s

\* one transmission of body on topic; ret is <<success, state() < 0>>
PubSubPublish(s, e, topic, body) ==
    LET ok == e.pub = "ok" /\ s.sockConnected
        lost == ~ok /\ (e.pub = "lost" \/ ~s.sockConnected)
        s1 == [Log(s, "pubsub.publish") EXCEPT
                  !.sent = Append(@, [topic |-> topic, body |-> body, ok |-> ok])]
    IN  IF lost THEN Return([s1 EXCEPT !.sockConnected = FALSE], <<FALSE, TRUE>>)
        ELSE Return(s1, <<ok, FALSE>>)

(***************************************************************************)
(* MqttService                                                             *)
(***************************************************************************)
MqttInit(s) == Return([Log(s, "mqtt.init") EXCEPT !.mqttClient = TRUE], TRUE)

\* mutant: the broker connection is opened without looking at the transport
M_MqttConnect_Unchecked(s, e) ==
    LET s0 == Log(s, "mqtt.connect")
        s1 == PubSubConnect([s0 EXCEPT !.mqttState = "CONNECTING"], e)
    IN  IF ~s1.ret
        THEN Return([s1 EXCEPT !.mqttState = "ERROR"], FALSE)
        ELSE Return([s1 EXCEPT !.mqttState = "CONNECTED"], TRUE)

MqttConnect(s, e) ==
    LET s0 == GprsIsConnected(Log(s, "mqtt.connect"))
    IN  IF ~s0.ret
        THEN Return([s0 EXCEPT !.mqttState = "ERROR"], FALSE)
        ELSE LET s1 == PubSubConnect([s0 EXCEPT !.mqttState = "CONNECTING"], e)
             IN  IF ~s1.ret
                 THEN Return([s1 EXCEPT !.mqttState = "ERROR"], FALSE)
                 ELSE Return([s1 EXCEPT !.mqttState = "CONNECTED"], TRUE)

MqttDisconnect(s) ==
    LET s0 == Log(s, "mqtt.disconnect")
        s1 == IF s0.mqttClient THEN [s0 EXCEPT !.sockConnected = FALSE] ELSE s0
    IN  [s1 EXCEPT !.mqttState = "DISCONNECTED"]

MqttIsConnected(s) ==
    IF ~s.mqttClient THEN Return(s, FALSE)
    ELSE LET connected == s.sockConnected
         IN  IF ~connected /\ s.mqttState = "CONNECTED"
             THEN Return([s EXCEPT !.mqttState = "DISCONNECTED"], connected)
             ELSE Return(s, connected)

MqttLoop(s, e) ==
    IF ~s.mqttClient THEN s
    ELSE LET s1 == MqttIsConnected(s)
         IN  IF s1.ret THEN PubSubLoop(s1, e) ELSE s1

\* mutant: an attempt time of 0 means that no attempt was made yet
M_InDwell_FromFirstAttempt(s) ==
    /\ s.lastReconnectAttempt # 0
    /\ USub(s.now, s.lastReconnectAttempt) < MQTT_RECONNECT_DELAY_MS

\* the dwell test of ensureConnection: too early for another attempt
InDwell(s) == USub(s.now, s.lastReconnectAttempt) < MQTT_RECONNECT_DELAY_MS

\* mutant: the attempt is recorded only once the transport is up
M_MqttEnsureConnection_RecordsLate(s, e) ==
    LET s0 == MqttIsConnected(Log(s, "mqtt.ensureConnection"))
    IN  IF s0.ret THEN Return(s0, TRUE)
        ELSE IF InDwell(s0) THEN Return(s0, FALSE)
        ELSE LET s1 == GprsEnsureConnection(s0, e)
             IN  IF ~s1.ret THEN Return(s1, FALSE)
                 ELSE MqttConnect([s1 EXCEPT !.lastReconnectAttempt = s1.now], e)

MqttEnsureConnection(s, e) ==
    LET s0 == MqttIsConnected(Log(s, "mqtt.ensureConnection"))
    IN  IF s0.ret THEN Return(s0, TRUE)
        ELSE IF InDwell(s0) THEN Return(s0, FALSE)
        ELSE LET s1 == GprsEnsureConnection(
                           [s0 EXCEPT !.lastReconnectAttempt = s0.now], e)
             IN  IF ~s1.ret THEN Return(s1, FALSE)
                 ELSE MqttConnect(s1, e)

\* mutant: the topic is built from the configured identifier
M_BuildTopic_ConfiguredId(deviceId) ==
    MQTT_TOPIC_PREFIX \o "/" \o DEVICE_ID \o "/" \o MQTT_TOPIC_SUFFIX

\* String concatenation
BuildTopic(deviceId) ==
    MQTT_TOPIC_PREFIX \o "/" \o deviceId \o "/" \o MQTT_TOPIC_SUFFIX

\* the JSON document, as the record of its members
BuildJsonPayload(payload) ==
    [device_id |-> payload.deviceId,
     location |-> [latitude |-> payload.latitude, longitude |-> payload.longitude],
     battery_level |-> payload.batteryLevel,
     fill_level |-> payload.fillLevel]

\* mutant: a failed transmission is tried once more
M_PublishSensorData_Retries(s, e, payload) ==
    LET s0 == MqttEnsureConnection(Log(s, "mqtt.publishSensorData"), e)
    IN  IF ~s0.ret THEN Return(s0, FALSE)
        ELSE
        LET s1 == PubSubLoop(s0, e)
        IN  IF ~s1.sockConnected
            THEN Return([s1 EXCEPT !.mqttState = "DISCONNECTED"], FALSE)
            ELSE LET s2 == PubSubPublish(s1, e, BuildTopic(payload.deviceId),
                                         BuildJsonPayload(payload))
                     s3 == IF s2.ret[1] THEN s2
                           ELSE PubSubPublish(s2, e, BuildTopic(payload.deviceId),
                                              BuildJsonPayload(payload))
                     success == s3.ret[1]
                     lost == s3.ret[2]
                 IN  IF success THEN Return(s3, TRUE)
                     ELSE IF lost
                     THEN Return([s3 EXCEPT !.mqttState = "DISCONNECTED"], FALSE)
                     ELSE Return(s3, FALSE)

\* payload: SensorPayload built by the caller
PublishSensorData(s, e, payload) ==
    LET s0 == MqttEnsureConnection(Log(s, "mqtt.publishSensorData"), e)
    IN  IF ~s0.ret THEN Return(s0, FALSE)
        ELSE
        LET s1 == PubSubLoop(s0, e)
        IN  IF ~s1.sockConnected
            THEN Return([s1 EXCEPT !.mqttState = "DISCONNECTED"], FALSE)
            ELSE LET s2 == PubSubPublish(s1, e, BuildTopic(payload.deviceId),
                                         BuildJsonPayload(payload))
                     success == s2.ret[1]
                     lost == s2.ret[2]
                 IN  IF success THEN Return(s2, TRUE)
                     ELSE IF lost
                     THEN Return([s2 EXCEPT !.mqttState = "DISCONNECTED"], FALSE)
                     ELSE Return(s2, FALSE)

(***************************************************************************)
(* SensorHAL / PowerHAL                                                    *)
(***************************************************************************)
\* SensorHAL::init probes the sensor, warns when it does not answer, and
\* returns true either way
SensorInit(s, e) ==
    Return(Log(s, IF e.sensor THEN "sensor.init" ELSE "sensor.init:notResponding"),
           TRUE)

\* PowerHAL::init: no ADC pin is configured, simulated values are used
PowerInit(s) == Return(Log(s, "power.init"), TRUE)

\* the sum of the samples that are > 0
SumPositive(smp) ==
    LET sum[n \in 0..Len(smp)] ==
            IF n = 0 THEN 0
            ELSE sum[n - 1] + (IF smp[n] > 0 THEN smp[n] ELSE 0)
    IN  sum[Len(smp)]

\* US100Driver::measureDistanceAvgCm over the measurements smp: the mean of
\* those that are > 0, or -1 when there is none
MeasureDistanceAvgCm(smp) ==
    LET validSamples == Cardinality({i \in 1..Len(smp) : smp[i] > 0})
    IN  IF validSamples = 0 THEN Cm(-1)
        ELSE Q(SumPositive(smp), validSamples)

\* mutant: every echo is accepted, however far
M_GetDistanceAvg_NoUpperLimit(d) ==
    IF d.num < 0 \/ d.num < SENSOR_MIN_DISTANCE_CM * d.den
    THEN [valid |-> FALSE, distanceCm |-> Cm(-1)]
    ELSE [valid |-> TRUE, distanceCm |-> d]

\* DistanceReading from the driver's average d
GetDistanceAvg(d) ==
    IF d.num < 0 \/ d.num < SENSOR_MIN_DISTANCE_CM * d.den
                 \/ d.num > SENSOR_MAX_DISTANCE_CM * d.den
    THEN [valid |-> FALSE, distanceCm |-> Cm(-1)]
    ELSE [valid |-> TRUE, distanceCm |-> d]

\* no battery ADC pin is configured: the simulated level is reported
GetBatteryStatus == [valid |-> TRUE, percentage |-> SIMULATED_BATTERY_LEVEL]

(***************************************************************************)
(* GpsHAL                                                                  *)
(***************************************************************************)
\* what getLocation() starts from: the configured coordinates, not valid
DefaultLocation ==
    [valid |-> FALSE, latitude |-> DEFAULT_LATITUDE, longitude |-> DEFAULT_LONGITUDE]

\* _enabled is set only when TinyGsm::enableGPS succeeds
GpsEnable(s, e) ==
    IF ~e.gpsOn THEN Return(Log(s, "gps.enable"), FALSE)
    ELSE Return([Log(s, "gps.enable") EXCEPT !.gpsEnabled = TRUE], TRUE)

GpsInit(s, e) == GpsEnable(Log(s, "gps.init"), e)

GpsDisable(s) == [Log(s, "gps.disable") EXCEPT !.gpsEnabled = FALSE]

\* the polls getLocation(timeout) makes when none succeeds: one every
\* GPS_POLL_DELAY_MS while millis() - startTime < timeout (a poll itself
\* takes no time)
PollsWithin(timeout) == (timeout + GPS_POLL_DELAY_MS - 1) \div GPS_POLL_DELAY_MS

\* mutant: after the timeout the coordinates are those of the last poll, 0, 0
M_GetLocation_TimeoutZeroes(s, e, timeout) ==
    LET s0 == Log(s, "gps.getLocation")
    IN  IF ~s0.gpsEnabled THEN [s0 EXCEPT !.gpsLoc = DefaultLocation]
        ELSE IF e.fixAfter # NoFix /\ e.fixAfter < PollsWithin(timeout)
        THEN [s0 EXCEPT !.gpsLoc = [valid |-> TRUE,
                                    latitude |-> e.fixPos.latitude,
                                    longitude |-> e.fixPos.longitude],
                        !.now = UAdd(@, e.fixAfter * GPS_POLL_DELAY_MS)]
        ELSE [s0 EXCEPT !.gpsLoc = [valid |-> FALSE, latitude |-> 0,
                                    longitude |-> 0],
                        !.now = UAdd(@, PollsWithin(timeout) * GPS_POLL_DELAY_MS)]

GetLocation(s, e, timeout) ==
    LET s0 == Log(s, "gps.getLocation")
    IN  IF ~s0.gpsEnabled THEN [s0 EXCEPT !.gpsLoc = DefaultLocation]
        ELSE IF e.fixAfter # NoFix /\ e.fixAfter < PollsWithin(timeout)
        THEN [s0 EXCEPT !.gpsLoc = [valid |-> TRUE,
                                    latitude |-> e.fixPos.latitude,
                                    longitude |-> e.fixPos.longitude],
                        !.now = UAdd(@, e.fixAfter * GPS_POLL_DELAY_MS)]
        ELSE [s0 EXCEPT !.gpsLoc = DefaultLocation,
                        !.now = UAdd(@, PollsWithin(timeout) * GPS_POLL_DELAY_MS)]

(***************************************************************************)
(* SmartWasteApp                                                           *)
(***************************************************************************)
\* mutant: the percentage is not clamped to 0..100
M_CalculateFillLevel_Unclamped(distanceCm, height) ==
    LET part == (height * distanceCm.den - distanceCm.num) * 100
        whole == height * distanceCm.den
    IN  IF distanceCm.num < 0 THEN -1
        ELSE IF part < 0 THEN -((-part) \div whole)
        ELSE part \div whole

\* (int8_t) of the clamped float: the fraction is cut off
CalculateFillLevel(distanceCm, height) ==
    LET part == (height * distanceCm.den - distanceCm.num) * 100
        whole == height * distanceCm.den
    IN  IF distanceCm.num < 0 THEN -1
        ELSE IF part < 0 THEN 0
        ELSE IF part > 100 * whole THEN 100
        ELSE part \div whole

\* mutant: a failed measurement is reported as distance 0, fill level 0
M_ReadSensors_DefaultsZero(s, e) ==
    LET distReading == GetDistanceAvg(MeasureDistanceAvgCm(e.smp))
        battery == GetBatteryStatus
    IN  [distanceCm |-> IF distReading.valid THEN distReading.distanceCm ELSE Cm(0),
         fillLevel |-> IF distReading.valid
                       THEN CalculateFillLevel(distReading.distanceCm, s.trashCanHeight)
                       ELSE 0,
         latitude |-> DEFAULT_LATITUDE,
         longitude |-> DEFAULT_LONGITUDE,
         batteryLevel |-> battery.percentage,
         gpsValid |-> FALSE]

\* the readings readSensors() returns; with GPS_ENABLED not defined (as
\* config.h ships) the fixed coordinates are used
ReadSensors(s, e) ==
    LET distReading == GetDistanceAvg(MeasureDistanceAvgCm(e.smp))
        gpsLoc_ == IF s.gpsBuild THEN GetLocation(s, e, GPS_TIMEOUT_MS).gpsLoc
                   ELSE DefaultLocation
        battery == GetBatteryStatus
    IN  [distanceCm |-> IF distReading.valid THEN distReading.distanceCm ELSE Cm(-1),
         fillLevel |-> IF distReading.valid
                       THEN CalculateFillLevel(distReading.distanceCm, s.trashCanHeight)
                       ELSE -1,
         latitude |-> gpsLoc_.latitude,
         longitude |-> gpsLoc_.longitude,
         batteryLevel |-> battery.percentage,
         gpsValid |-> gpsLoc_.valid]

\* mutant: a sensor that does not answer fails the bring-up
M_InitHardware_SensorFatal(s, e) ==
    LET s1 == ModemInit(s, e)
    IN  IF s1.hung THEN s1
        ELSE IF ~s1.ret THEN Return(s1, FALSE)
        ELSE LET s2 == CheckSim(s1, e)
             IN  IF ~s2.ret THEN Return(s2, FALSE)
                 ELSE Return(PowerInit(SensorInit(s2, e)), e.sensor)

InitHardware(s, e) ==
    LET s1 == ModemInit(s, e)
    IN  IF s1.hung THEN s1
        ELSE IF ~s1.ret THEN Return(s1, FALSE)
        ELSE LET s2 == CheckSim(s1, e)
             IN  IF ~s2.ret THEN Return(s2, FALSE)
                 ELSE Return(PowerInit(SensorInit(s2, e)), TRUE)

InitNetwork(s, e) ==
    LET s1 == GprsConnect(Log(s, "gprs.init"), e)
    IN  IF ~s1.ret THEN Return(s1, FALSE)
        ELSE LET g1 == IF s1.gpsBuild THEN GpsInit(s1, e) ELSE s1
                 s2 == MqttConnect(MqttInit(g1), e)
             IN  IF ~s2.ret THEN Return(s2, FALSE)
                 ELSE Return(s2, TRUE)

AppInitOp(s, e) ==
    LET s0 == [s EXCEPT !.appState = "INIT"]
        s1 == InitHardware(s0, e)
    IN  IF s1.hung THEN s1
        ELSE IF ~s1.ret THEN Return([s1 EXCEPT !.appState = "ERROR"], FALSE)
        ELSE LET s2 == InitNetwork(s1, e)
             IN  IF ~s2.ret THEN Return([s2 EXCEPT !.appState = "ERROR"], FALSE)
                 ELSE Return([s2 EXCEPT !.initialized = TRUE,
                                        !.appState = "IDLE",
                                        !.lastPublishTime = s2.now], TRUE)

\* mutant: the cadence is not looked at
M_ShouldPublish_Always(s) == s.firstRun \/ s.publishInterval >= 0

\* mutant: the interval must be exceeded, not reached
M_ShouldPublish_Strict(s) ==
    IF s.firstRun THEN TRUE
    ELSE USub(s.now, s.lastPublishTime) > s.publishInterval

ShouldPublish(s) ==
    IF s.firstRun THEN TRUE
    ELSE USub(s.now, s.lastPublishTime) >= s.publishInterval

\* mutant: the result of the transport check is ignored
M_PublishData_IgnoresTransport(s, e, readings) ==
    LET s1 == GprsEnsureConnection(s, e)
        s2 == MqttEnsureConnection(s1, e)
    IN  IF ~s2.ret THEN Return(s2, FALSE)
        ELSE PublishSensorData(s2, e,
                 [deviceId |-> DEVICE_ID,
                  latitude |-> readings.latitude,
                  longitude |-> readings.longitude,
                  batteryLevel |-> readings.batteryLevel,
                  fillLevel |-> readings.fillLevel])

\* mutant: the -1 sentinel is published as an empty container
M_PublishData_ZeroesSentinel(s, e, readings) ==
    LET s1 == GprsEnsureConnection(s, e)
    IN  IF ~s1.ret THEN Return(s1, FALSE)
        ELSE LET s2 == MqttEnsureConnection(s1, e)
             IN  IF ~s2.ret THEN Return(s2, FALSE)
                 ELSE PublishSensorData(s2, e,
                          [deviceId |-> DEVICE_ID,
                           latitude |-> readings.latitude,
                           longitude |-> readings.longitude,
                           batteryLevel |-> readings.batteryLevel,
                           fillLevel |-> IF readings.fillLevel < 0 THEN 0
                                         ELSE readings.fillLevel])

PublishData(s, e, readings) ==
    LET s1 == GprsEnsureConnection(s, e)
    IN  IF ~s1.ret THEN Return(s1, FALSE)
        ELSE LET s2 == MqttEnsureConnection(s1, e)
             IN  IF ~s2.ret THEN Return(s2, FALSE)
                 ELSE PublishSensorData(s2, e,
                          [deviceId |-> DEVICE_ID,
                           latitude |-> readings.latitude,
                           longitude |-> readings.longitude,
                           batteryLevel |-> readings.batteryLevel,
                           fillLevel |-> readings.fillLevel])

HandleError(s, e) ==
    LET s1 == IF ~ModemIsReady(s) THEN ModemRestart(s, e) ELSE s
    IN  IF s1.hung THEN s1
        ELSE
        LET g1 == GprsIsConnected(s1)
            s2 == IF ~g1.ret THEN GprsConnect(g1, e) ELSE g1
            m2 == MqttIsConnected(s2)
            s3 == IF ~m2.ret THEN MqttConnect(m2, e) ELSE m2
            g3 == GprsIsConnected(s3)
        IN  IF ModemIsReady(s3) /\ g3.ret
            THEN [g3 EXCEPT !.appState = "IDLE"]
            ELSE IF ModemIsReady(s3)
            THEN [Log(g3, "delay") EXCEPT !.now = UAdd(@, ERROR_RETRY_DELAY_MS)]
            ELSE [Log(s3, "delay") EXCEPT !.now = UAdd(@, ERROR_RETRY_DELAY_MS)]

\* mutant: the Idle tick that finds a publish due goes past READING_SENSORS
M_RunIdle_SkipsSensing(s) ==
    IF ShouldPublish(s) THEN [s EXCEPT !.appState = "PUBLISHING"] ELSE s

\* mutant: an Idle tick with nothing to publish puts the application to sleep
M_RunIdle_Sleeps(s) ==
    IF ShouldPublish(s) THEN [s EXCEPT !.appState = "READING_SENSORS"]
    ELSE [s EXCEPT !.appState = "SLEEP"]

\* case AppState::IDLE
RunIdle(s) ==
    IF ShouldPublish(s) THEN [s EXCEPT !.appState = "READING_SENSORS"] ELSE s

\* mutant: a failed measurement is repeated on the next tick
M_RunReadingSensors_RepeatsInvalid(s, e) ==
    IF ReadSensors(s, e).fillLevel < 0
    THEN [Log(s, "readSensors") EXCEPT !.lastReadings = ReadSensors(s, e),
                                       !.samples = e.smp]
    ELSE [Log(s, "readSensors") EXCEPT !.lastReadings = ReadSensors(s, e),
                                       !.samples = e.smp,
                                       !.appState = "PUBLISHING"]

\* case AppState::READING_SENSORS; the GPS_ENABLED build spends the time
\* getLocation() waits for a fix
RunReadingSensors(s, e) ==
    LET s1 == IF s.gpsBuild
              THEN GetLocation(Log(s, "readSensors"), e, GPS_TIMEOUT_MS)
              ELSE Log(s, "readSensors")
    IN  [s1 EXCEPT !.lastReadings = ReadSensors(s, e),
                   !.samples = e.smp,
                   !.appState = "PUBLISHING"]

\* mutant: the cadence is reset whatever the outcome
M_RunPublishing_ResetsCadence(s, e) ==
    LET s1 == PublishData(s, e, s.lastReadings)
    IN  IF s1.ret
        THEN [s1 EXCEPT !.lastPublishTime = s1.now,
                        !.firstRun = FALSE,
                        !.appState = "IDLE"]
        ELSE [s1 EXCEPT !.lastPublishTime = s1.now, !.appState = "IDLE"]

\* mutant: the first-run flag is cleared whatever the outcome
M_RunPublishing_ClearsFirstRun(s, e) ==
    LET s1 == PublishData(s, e, s.lastReadings)
    IN  IF s1.ret
        THEN [s1 EXCEPT !.lastPublishTime = s1.now,
                        !.firstRun = FALSE,
                        !.appState = "IDLE"]
        ELSE [s1 EXCEPT !.firstRun = FALSE, !.appState = "IDLE"]

\* mutant: a failed publish is treated as a fault
M_RunPublishing_FailsToError(s, e) ==
    LET s1 == PublishData(s, e, s.lastReadings)
    IN  IF s1.ret
        THEN [s1 EXCEPT !.lastPublishTime = s1.now,
                        !.firstRun = FALSE,
                        !.appState = "IDLE"]
        ELSE [s1 EXCEPT !.appState = "ERROR"]

\* mutant: a failed publish keeps the report for another try
M_RunPublishing_KeepsReport(s, e) ==
    LET s1 == PublishData(s, e, s.lastReadings)
    IN  IF s1.ret
        THEN [s1 EXCEPT !.lastPublishTime = s1.now,
                        !.firstRun = FALSE,
                        !.appState = "IDLE"]
        ELSE s1

\* case AppState::PUBLISHING
RunPublishing(s, e) ==
    LET s1 == PublishData(s, e, s.lastReadings)
    IN  IF s1.ret
        THEN [s1 EXCEPT !.lastPublishTime = s1.now,
                        !.firstRun = FALSE,
                        !.appState = "IDLE"]
        ELSE [s1 EXCEPT !.appState = "IDLE"]

\* mutant: the tick does not look at _initialized
M_RunOp_Unguarded(s, e) ==
    LET s0 == MqttLoop(s, e)
    IN  CASE s0.appState = "IDLE" -> RunIdle(s0)
          [] s0.appState = "READING_SENSORS" -> RunReadingSensors(s0, e)
          [] s0.appState = "PUBLISHING" -> RunPublishing(s0, e)
          [] s0.appState = "ERROR" -> HandleError(s0, e)
          [] s0.appState = "SLEEP" -> s0
          [] OTHER -> [s0 EXCEPT !.appState = "IDLE"]

RunOp(s, e) ==
    IF ~s.initialized THEN s
    ELSE
    LET s0 == MqttLoop(s, e)
    IN  CASE s0.appState = "IDLE" -> RunIdle(s0)
          [] s0.appState = "READING_SENSORS" -> RunReadingSensors(s0, e)
          [] s0.appState = "PUBLISHING" -> RunPublishing(s0, e)
          [] s0.appState = "ERROR" -> HandleError(s0, e)
          [] s0.appState = "SLEEP" -> s0
          [] OTHER -> [s0 EXCEPT !.appState = "IDLE"]

GetStateOp(s) == Return(s, s.appState)

GetLastReadingsOp(s) == Return(s, s.lastReadings)

\* mutant: forcing a publish re-arms the first-run flag
M_ForcePublishOp_RearmsFirstRun(s) ==
    [s EXCEPT !.lastPublishTime = 0, !.firstRun = TRUE]

ForcePublishOp(s) == [s EXCEPT !.lastPublishTime = 0]

SetPublishIntervalOp(s, intervalMs) == [s EXCEPT !.publishInterval = intervalMs]

SetTrashCanHeightOp(s, heightCm) == [s EXCEPT !.trashCanHeight = heightCm]

(***************************************************************************)
(* The state machine: one action per public operation and per event of the *)
(* environment.                                                            *)
(***************************************************************************)
\* the state record at the start of an operation
St ==
    [appState |-> appState, lastPublishTime |-> lastPublishTime,
     publishInterval |-> publishInterval, initialized |-> initialized,
     firstRun |-> firstRun, lastReadings |-> lastReadings,
     modemStatus |-> modemStatus, gprsState |-> gprsState,
     mqttState |-> mqttState, lastReconnectAttempt |-> lastReconnectAttempt,
     mqttClient |-> mqttClient, now |-> now, netRegistered |-> netRegistered,
     gprsAttached |-> gprsAttached, sockConnected |-> sockConnected,
     hung |-> FALSE, ret |-> FALSE, calls |-> <<>>, sent |-> <<>>,
     trashCanHeight |-> trashCanHeight, samples |-> samples,
     gpsBuild |-> gpsBuild, gpsEnabled |-> gpsEnabled, gpsLoc |-> gpsLoc]

\* the operation `name` ends in state record r, returning rv
CommitState(r, name, rv) ==
    /\ appState' = r.appState
    /\ lastPublishTime' = r.lastPublishTime
    /\ publishInterval' = r.publishInterval
    /\ initialized' = r.initialized
    /\ firstRun' = r.firstRun
    /\ lastReadings' = r.lastReadings
    /\ modemStatus' = r.modemStatus
    /\ gprsState' = r.gprsState
    /\ mqttState' = r.mqttState
    /\ lastReconnectAttempt' = r.lastReconnectAttempt
    /\ mqttClient' = r.mqttClient
    /\ now' = r.now
    /\ netRegistered' = r.netRegistered
    /\ gprsAttached' = r.gprsAttached
    /\ sockConnected' = r.sockConnected
    /\ hung' = r.hung
    /\ op' = name
    /\ ret' = (IF r.hung THEN "hung" ELSE rv)
    /\ calls' = r.calls
    /\ sent' = r.sent
    /\ trashCanHeight' = r.trashCanHeight
    /\ samples' = r.samples
    /\ gpsBuild' = r.gpsBuild
    /\ gpsEnabled' = r.gpsEnabled
    /\ gpsLoc' = r.gpsLoc
    /\ elapsed' = Saturated(IF r.lastPublishTime = lastPublishTime
                            THEN elapsed + Forward(now, r.now)
                            ELSE Forward(r.lastPublishTime, r.now))
    /\ sinceAttempt' = Saturated(IF r.lastReconnectAttempt = lastReconnectAttempt
                                 THEN sinceAttempt + Forward(now, r.now)
                                 ELSE Forward(r.lastReconnectAttempt, r.now))

\* the same, within the time the model lets the clock reach
Commit(r, name, rv) ==
    /\ r.now <= MaxClock
    /\ CommitState(r, name, rv)

Bool(b) == IF b THEN "true" ELSE "false"

NoOutcome ==
    [at |-> "ok", sim |-> 1, reg |-> TRUE, attach |-> TRUE, broker |-> TRUE,
     pub |-> "ok", loopDrop |-> FALSE, smp |-> AllSamples(60), sensor |-> TRUE,
     gpsOn |-> TRUE, fixAfter |-> NoFix, fixPos |-> Riyadh]

\* the device identifiers a caller of the session layer may put in a payload
DeviceIds == {DEVICE_ID, "bin_42", ""}

\* the payloads handed to publishSensorData()
Payloads ==
    {[deviceId |-> id, latitude |-> DEFAULT_LATITUDE, longitude |-> DEFAULT_LONGITUDE,
      batteryLevel |-> SIMULATED_BATTERY_LEVEL, fillLevel |-> f] :
        id \in DeviceIds, f \in {-1, 50}}

\* init() stops at the first step that fails: the outcomes of the steps after
\* a failing one are never looked at, and are fixed here
InitOutcomes ==
    {e \in Outcomes : e.pub = "ok" /\ e.loopDrop = FALSE /\ e.smp = AllSamples(60)
        /\ (e.at # "ok" => e.sim = 1 /\ e.sensor /\ e.reg /\ e.attach /\ e.broker)
        /\ (e.sim # 1 => e.sensor /\ e.reg /\ e.attach /\ e.broker)
        /\ (~e.reg => e.attach /\ e.broker)
        /\ (~e.attach => e.broker)}

\* publishData() stops at the first step that fails, likewise
PublishOutcomes ==
    {e \in Outcomes : e.at = "ok" /\ e.sim = 1 /\ e.smp = AllSamples(60) /\ e.sensor
        /\ (~e.reg => e.attach /\ e.broker /\ e.pub = "ok")
        /\ (~e.attach => e.broker /\ e.pub = "ok")
        /\ (~e.broker => e.pub = "ok")}

\* the outcomes a tick can meet in application state st
RunOutcomes(st) ==
    CASE st = "READING_SENSORS" ->
           {[NoOutcome EXCEPT !.loopDrop = l, !.smp = q] :
                l \in BOOLEAN, q \in AppSamples}
      [] st = "PUBLISHING" -> PublishOutcomes
      [] st = "ERROR" ->
           {e \in Outcomes : e.sim = 1 /\ e.smp = AllSamples(60) /\ e.pub = "ok" /\ e.sensor}
      [] OTHER -> {[NoOutcome EXCEPT !.loopDrop = l] : l \in BOOLEAN}

Init ==
    /\ appState = "INIT"
    /\ lastPublishTime = 0
    /\ publishInterval = PUBLISH_INTERVAL_MS
    /\ initialized = FALSE
    /\ firstRun = TRUE
    /\ lastReadings = [distanceCm |-> Cm(0), fillLevel |-> 0, latitude |-> 0,
                       longitude |-> 0, batteryLevel |-> 0, gpsValid |-> FALSE]
    /\ modemStatus = "OFF"
    /\ gprsState = "DISCONNECTED"
    /\ mqttState = "DISCONNECTED"
    /\ lastReconnectAttempt = 0
    /\ mqttClient = FALSE
    /\ now = 0
    /\ netRegistered = FALSE
    /\ gprsAttached = FALSE
    /\ sockConnected = FALSE
    /\ hung = FALSE
    /\ op = "boot"
    /\ ret = "void"
    /\ calls = <<>>
    /\ sent = <<>>
    /\ trashCanHeight = TRASH_CAN_HEIGHT_CM
    /\ samples = <<>>
    /\ elapsed = 0
    /\ sinceAttempt = 0
    /\ gpsBuild = FALSE
    /\ gpsEnabled = FALSE
    /\ gpsLoc = DefaultLocation

\* SmartWasteApp::init(), as setup() calls it: once, first
Setup ==
    /\ ~hung
    /\ appState = "INIT"
    /\ \E e \in InitOutcomes :
          LET r == AppInitOp(St, e) IN Commit(r, "init", Bool(r.ret))

\* SmartWasteApp::init(), called at any time by an external scheduler
AppInit ==
    /\ ~hung
    /\ \E e \in InitOutcomes :
          LET r == AppInitOp(St, e) IN Commit(r, "init", Bool(r.ret))

\* SmartWasteApp::run(), one tick of loop()
Run ==
    /\ ~hung
    /\ \E e \in RunOutcomes(appState) :
          Commit(RunOp(St, e), "run", "void")

\* SmartWasteApp::forcePublish()
ForcePublish ==
    /\ ~hung
    /\ Commit(ForcePublishOp(St), "forcePublish", "void")

\* SmartWasteApp::setPublishInterval(ms)
SetPublishInterval ==
    /\ ~hung
    /\ \E ms \in Intervals :
          Commit(SetPublishIntervalOp(St, ms), "setPublishInterval", "void")

\* SmartWasteApp::setTrashCanHeight(cm)
SetTrashCanHeight ==
    /\ ~hung
    /\ \E h \in Heights :
          Commit(SetTrashCanHeightOp(St, h), "setTrashCanHeight", "void")

\* the outcomes of a tick over a healthy network: in READING_SENSORS, every
\* sequence of measurements
SenseOutcomes(st) ==
    IF st = "READING_SENSORS"
    THEN {[NoOutcome EXCEPT !.smp = q] : q \in SampleSeqs}
    ELSE {NoOutcome}

\* SmartWasteApp::run(), one tick of loop(), over a healthy network
Sense ==
    /\ ~hung
    /\ \E e \in SenseOutcomes(appState) :
          Commit(RunOp(St, e), "run", "void")

\* GprsManager::ensureConnection(), called on an initialised stack
EnsureTransport ==
    /\ ~hung
    /\ mqttClient
    /\ \E e \in NetOutcomes :
          LET r == GprsEnsureConnection(St, e)
          IN  Commit(r, "gprs.ensureConnection", Bool(r.ret))

\* MqttService::ensureConnection(), called on an initialised stack
EnsureSession ==
    /\ ~hung
    /\ mqttClient
    /\ \E e \in NetOutcomes :
          LET r == MqttEnsureConnection(St, e)
          IN  Commit(r, "mqtt.ensureConnection", Bool(r.ret))

\* GprsManager::isConnected()
QueryTransport ==
    /\ ~hung
    /\ mqttClient
    /\ LET r == GprsIsConnected(St)
       IN  Commit(r, "gprs.isConnected", Bool(r.ret))

\* MqttService::isConnected()
QuerySession ==
    /\ ~hung
    /\ LET r == MqttIsConnected(St)
       IN  Commit(r, "mqtt.isConnected", Bool(r.ret))

\* the clock advances
AdvanceClock ==
    /\ ~hung
    /\ now + ClockStep <= MaxClock
    /\ Commit([St EXCEPT !.now = UAdd(now, ClockStep), !.hung = hung],
              "clock", "void")

\* the packet bearer drops; registration and the broker socket may go with it
DropTransport ==
    /\ ~hung
    /\ gprsAttached
    /\ \E keepReg \in BOOLEAN, keepSock \in BOOLEAN :
          Commit([St EXCEPT !.gprsAttached = FALSE,
                            !.netRegistered = @ /\ keepReg,
                            !.sockConnected = @ /\ keepSock,
                            !.hung = hung],
                 "dropTransport", "void")

\* the broker connection drops
DropSession ==
    /\ ~hung
    /\ sockConnected
    /\ Commit([St EXCEPT !.sockConnected = FALSE, !.hung = hung],
              "dropSession", "void")

\* the firmware as main.cpp runs it: setup() once, then loop() for ever, with
\* the configuration calls of the produced interface in between
Next ==
    \/ Setup
    \/ Run
    \/ ForcePublish
    \/ SetPublishInterval
    \/ AdvanceClock
    \/ DropTransport
    \/ DropSession

Spec == Init /\ [][Next]_vars

\* init() and run() called in any order by an external scheduler: init() may
\* be called again, at the default publish interval
NextApi ==
    \/ AppInit
    \/ Run
    \/ AdvanceClock
    \/ DropTransport
    \/ DropSession

SpecApi == Init /\ [][NextApi]_vars

\* the connectivity stack, driven through its public operations after setup()
NextNet ==
    \/ Setup
    \/ EnsureTransport
    \/ EnsureSession
    \/ QueryTransport
    \/ QuerySession
    \/ AdvanceClock
    \/ DropTransport
    \/ DropSession

SpecNet == Init /\ [][NextNet]_vars

\* the sensing path: setup(), then ticks over a healthy network, with the
\* measurements of the distance sensor and the container height as inputs
NextSensor ==
    \/ Setup
    \/ SetTrashCanHeight
    \/ Sense

SpecSensor == Init /\ [][NextSensor]_vars

(***************************************************************************)
(* A device that has been running for a long time: its clock is about to   *)
(* roll over.                                                              *)
(***************************************************************************)
\* what the clock reads when the specification starts
StartTimes == {0, ClockMod - ClockStep, ClockMod - 1}

\* the firmware in IDLE after a successful publish at clock reading t, the
\* last reconnect attempt made at t as well, stack up, session connected
InitClock ==
    /\ appState = "IDLE"
    /\ initialized = TRUE
    /\ firstRun = FALSE
    /\ publishInterval \in Intervals
    /\ \E t \in StartTimes :
          /\ now = t
          /\ lastPublishTime = t
          /\ lastReconnectAttempt = t
    /\ elapsed = 0
    /\ sinceAttempt = 0
    /\ trashCanHeight = TRASH_CAN_HEIGHT_CM
    /\ samples = AllSamples(60)
    /\ lastReadings = ReadSensors([trashCanHeight |-> TRASH_CAN_HEIGHT_CM,
                                    gpsBuild |-> FALSE], NoOutcome)
    /\ gpsBuild = FALSE
    /\ gpsEnabled = FALSE
    /\ gpsLoc = DefaultLocation
    /\ modemStatus = "READY"
    /\ gprsState = "CONNECTED"
    /\ mqttState = "CONNECTED"
    /\ mqttClient = TRUE
    /\ netRegistered = TRUE
    /\ gprsAttached = TRUE
    /\ sockConnected = TRUE
    /\ hung = FALSE
    /\ op = "run"
    /\ ret = "void"
    /\ calls = <<>>
    /\ sent = <<>>

\* ClockStep ms pass; less than one turn of the clock passes between two
\* publishes and between two reconnect attempts
Elapse ==
    /\ elapsed + ClockStep < ClockMod
    /\ sinceAttempt + ClockStep < ClockMod
    /\ CommitState([St EXCEPT !.now = UAdd(now, ClockStep), !.hung = hung],
                   "clock", "void")

\* SmartWasteApp::run(), one tick of loop() in IDLE
IdleTick ==
    /\ appState = "IDLE"
    /\ CommitState(RunOp(St, NoOutcome), "run", "void")

\* the broker connection drops
LoseSession ==
    /\ sockConnected
    /\ CommitState([St EXCEPT !.sockConnected = FALSE, !.hung = hung],
                   "dropSession", "void")

\* MqttService::ensureConnection()
Reconnect ==
    /\ mqttClient
    /\ \E e \in NetOutcomes :
          LET r == MqttEnsureConnection(St, e)
          IN  CommitState(r, "mqtt.ensureConnection", Bool(r.ret))

NextClock ==
    \/ Elapse
    \/ IdleTick
    \/ LoseSession
    \/ Reconnect

SpecClock == InitClock /\ [][NextClock]_vars

\* MqttService::publishSensorData(payload), called on an initialised stack
PublishPayload ==
    /\ ~hung
    /\ mqttClient
    /\ \E e \in PublishOutcomes, payload \in Payloads :
          LET r == PublishSensorData(St, e, payload)
          IN  Commit(r, "mqtt.publishSensorData", Bool(r.ret))

\* the session layer as a publisher of any caller's payloads
NextPublish ==
    \/ Setup
    \/ PublishPayload
    \/ AdvanceClock
    \/ DropSession

SpecPublish == Init /\ [][NextPublish]_vars

\* what the clock advances by in the endless run
LiveStep == ClockMod \div 8

\* SmartWasteApp::run(), one tick of loop(), at any time of a run that never
\* ends
RunOn ==
    /\ ~hung
    /\ \E e \in RunOutcomes(appState) :
          CommitState(RunOp(St, e), "run", "void")

\* the clock advances, rolling over in the end; loop() ticks every 10 ms, so
\* something has run since the clock advanced last
ClockOn ==
    /\ ~hung
    /\ op # "clock"
    /\ CommitState([St EXCEPT !.now = UAdd(now, LiveStep), !.hung = hung],
                   "clock", "void")

\* main.cpp for ever: setup(), then loop() again and again while time passes
NextLive ==
    \/ Setup
    \/ RunOn
    \/ ClockOn

SpecLive == Init /\ [][NextLive]_vars /\ WF_vars(ClockOn)

\* the firmware as main.cpp runs it, with no configuration call: setup()
\* once, then loop() for ever
NextLoop ==
    \/ Setup
    \/ Run
    \/ AdvanceClock
    \/ DropTransport
    \/ DropSession

SpecLoop == Init /\ [][NextLoop]_vars

(***************************************************************************)
(* Claims                                                                  *)
(***************************************************************************)
\* the session layer is reported connected: by its recorded state, or by the
\* answer isConnected() would give now
SessionReportedConnected == mqttState = "CONNECTED" \/ MqttIsConnected(St).ret

\* the transport layer is Disconnected or Faulted
TransportDown == gprsState \in {"DISCONNECTED", "ERROR"}

\* C1: in every reachable state the session layer is never reported connected
\* while the transport layer is Disconnected or Faulted.
C1_SessionNeverAboveDownTransport == ~(SessionReportedConnected /\ TransportDown)

\* the running operation transmitted, and the last transmission succeeded
PublishedOk == sent # <<>> /\ sent[Len(sent)].ok

\* the last operation was a tick that ran the Publishing step
PublishingTick ==
    /\ op = "run"
    /\ calls # <<>>
    /\ calls[1] = "gprs.ensureConnection"

\* C2, step form: a tick in Publishing that fails keeps _firstRun; _firstRun
\* is cleared only by a tick in Publishing that publishes successfully; an
\* Idle tick with _firstRun set goes to Sensing; once cleared it stays cleared.
C2_Step ==
    /\ (op' = "run" /\ initialized /\ appState = "PUBLISHING" /\ firstRun
            /\ ~PublishedOk') => firstRun'
    /\ (firstRun /\ ~firstRun') =>
            (op' = "run" /\ initialized /\ appState = "PUBLISHING" /\ PublishedOk')
    /\ (op' = "run" /\ initialized /\ appState = "IDLE" /\ firstRun) =>
            appState' = "READING_SENSORS"
    /\ ~firstRun => ~firstRun'

\* C2: first_cycle_pending is true from startup until the first successful
\* publish and is cleared only by it: failed attempts leave it set, while it
\* is set should_publish() is true whatever the interval and the clock, so
\* every Idle tick starts another attempt (N failures and one success make
\* N+1 attempts), and once false it is never true again.
C2_FirstRunUntilFirstSuccess ==
    /\ (firstRun = TRUE)
    /\ [](firstRun => ShouldPublish(St))
    /\ [][C2_Step]_vars

\* C2 witness: a publish attempt has just failed with first_cycle_pending
\* still set, at a time when the interval alone would not allow a publish
C2_Witness ==
    /\ PublishingTick
    /\ ~PublishedOk
    /\ firstRun
    /\ appState = "IDLE"
    /\ now - lastPublishTime < publishInterval

\* the time elapsed since the last recorded publish, as the firmware computes it
Elapsed == USub(now, lastPublishTime)

C3_Step ==
    /\ (op' = "run" /\ PublishedOk' /\ publishInterval > 0) =>
            (~firstRun' /\ Elapsed' = 0 /\ ~ShouldPublish(St)')
    /\ (lastPublishTime' # lastPublishTime) =>
            \/ op' = "run" /\ PublishedOk' /\ lastPublishTime' = now'
            \/ op' = "forcePublish"
            \/ op' = "init"
    /\ (op' = "run" /\ initialized /\ appState = "IDLE" /\ ~firstRun) =>
            (appState' = "READING_SENSORS" <=> Elapsed >= publishInterval)

C4_NoImmediateRetry ==
    [][(PublishingTick /\ ~PublishedOk /\ ~firstRun /\ appState = "IDLE"
            /\ publishInterval > 0 /\ op' = "run")
          => appState' # "READING_SENSORS"]_vars

\* C5: a Publishing step that succeeds sets last_successful_publish_at to the
\* current time and clears first_cycle_pending; one that fails leaves both
\* unchanged; in both cases the next state is Idle.
C5_PublishingEffect ==
    [][(op' = "run" /\ initialized /\ appState = "PUBLISHING") =>
            /\ appState' = "IDLE"
            /\ IF PublishedOk'
               THEN lastPublishTime' = now' /\ ~firstRun'
               ELSE lastPublishTime' = lastPublishTime /\ firstRun' = firstRun]_vars

\* C5 witness: a Publishing step has just failed at a time other than the one
\* recorded for the last successful publish
C5_Witness ==
    /\ PublishingTick
    /\ ~PublishedOk
    /\ ~firstRun
    /\ appState = "IDLE"
    /\ lastPublishTime # now

\* C6: init() returns true and leaves the application in Idle exactly when
\* modem init, SIM check, transport connect and session connect all succeed;
\* otherwise it returns false and leaves the application in ERROR; whether
\* the distance sensor answers its probe makes no difference.  Stated of
\* init() called in the current state, for every outcome of the libraries
\* under which it returns.
C6_InitResult ==
    \A e \in InitOutcomes :
        LET r == AppInitOp(St, e)
            allUp == /\ e.at = "ok"
                     /\ e.sim = SIM_READY
                     /\ (netRegistered \/ e.reg)
                     /\ e.attach
                     /\ e.broker
        IN  ~r.hung =>
               /\ r.ret <=> allUp
               /\ r.ret => (r.appState = "IDLE" /\ r.initialized)
               /\ ~r.ret => r.appState = "ERROR"

\* C6 witness: init() has returned true and left Idle although the distance
\* sensor did not answer
C6_Witness ==
    /\ op = "init"
    /\ ret = "true"
    /\ appState = "IDLE"
    /\ \E i \in 1..Len(calls) : calls[i] = "sensor.init:notResponding"

\* C7: after a failed init() the ticks that follow attempt local recovery:
\* a tick in ERROR calls into the modem, the transport or the session layer,
\* or leaves ERROR.
C7_RecoveryAttempted ==
    [][(op' = "run" /\ appState = "ERROR")
          => (calls' # <<>> \/ appState' # "ERROR")]_vars

\* the transport layer, asked now, answers connected
TransportHealthy == GprsIsConnected(St).ret

\* the session layer, asked now, answers connected
SessionHealthy == MqttIsConnected(St).ret

\* C8: a Recovering tick moves the application to Idle only if both the
\* transport layer and the session layer are healthy at its end.
C8_IdleOnlyIfBothHealthy ==
    [][(op' = "run" /\ appState = "ERROR" /\ appState' = "IDLE")
          => (TransportHealthy' /\ SessionHealthy')]_vars

C9_Step ==
    /\ (op' = "mqtt.ensureConnection" /\ ~sockConnected
            /\ USub(now, lastReconnectAttempt) < MQTT_RECONNECT_DELAY_MS) =>
            /\ ret' = "false"
            /\ calls' = <<"mqtt.ensureConnection">>
            /\ lastReconnectAttempt' = lastReconnectAttempt
            /\ gprsState' = gprsState
            /\ mqttState' # "CONNECTED"
    /\ (op' = "mqtt.ensureConnection" /\ ~sockConnected
            /\ USub(now, lastReconnectAttempt) >= MQTT_RECONNECT_DELAY_MS) =>
            /\ lastReconnectAttempt' = now
            /\ Len(calls') > 1

\* C9: ensureConnection called with the session disconnected less than
\* MQTT_RECONNECT_DELAY_MS after the previous attempt returns false and calls
\* neither the transport's ensure/connect nor the session connect, leaving the
\* attempt time unchanged; called outside the window it records the attempt
\* before trying, so a failed attempt opens a window too.
C9_ReconnectDwell == [][C9_Step]_vars

\* C9 witness: a call inside the window opened by an attempt that failed on
\* the transport has just returned false without calling anything
C9_Witness ==
    /\ op = "mqtt.ensureConnection"
    /\ ret = "false"
    /\ calls = <<"mqtt.ensureConnection">>
    /\ lastReconnectAttempt > 0
    /\ now > lastReconnectAttempt
    /\ gprsState # "CONNECTED"
    /\ ~sockConnected

\* C10: ensureConnection of the transport returns true without a connect
\* attempt when the transport is verified connected, and on every failure
\* path returns false leaving the transport state ERROR.
C10_EnsureTransport ==
    [][(op' = "gprs.ensureConnection") =>
          /\ (gprsState = "CONNECTED" /\ gprsAttached) =>
                 (ret' = "true" /\ calls' = <<"gprs.ensureConnection">>)
          /\ ret' = "false" => gprsState' = "ERROR"]_vars

\* the position of the first c in the call sequence cs, 0 when there is none
FirstIndex(cs, c) ==
    IF \E i \in 1..Len(cs) : cs[i] = c
    THEN CHOOSE i \in 1..Len(cs) : cs[i] = c /\ \A j \in 1..(i - 1) : cs[j] # c
    ELSE 0

\* the calls made by the publisher (publishSensorData) itself
PublisherCalls(cs) ==
    IF FirstIndex(cs, "mqtt.publishSensorData") = 0 THEN <<>>
    ELSE SubSeq(cs, FirstIndex(cs, "mqtt.publishSensorData") + 1, Len(cs))

\* in cs the transport was ensured first, the session after it, and the
\* transmission came after both
EnsuredInOrder(cs) ==
    /\ FirstIndex(cs, "gprs.ensureConnection") = 1
    /\ FirstIndex(cs, "mqtt.ensureConnection") > 1
    /\ FirstIndex(cs, "pubsub.publish") > FirstIndex(cs, "mqtt.ensureConnection")

\* C11 as stated: a Publishing tick transmits only after the transport and
\* then the session were ensured, and the publisher itself does not re-verify
\* or re-establish connectivity.
C11_PublisherDoesNotReverify ==
    [][(op' = "run" /\ initialized /\ appState = "PUBLISHING") =>
          /\ sent' # <<>> => EnsuredInOrder(calls')
          /\ \A i \in 1..Len(PublisherCalls(calls')) :
                 PublisherCalls(calls')[i] \notin
                     {"mqtt.ensureConnection", "gprs.ensureConnection",
                      "mqtt.connect", "gprs.connect"}]_vars

\* C11, amended: of a tick in Publishing, for every outcome of the libraries:
\* the report is transmitted only if ensure_transport returned true and then
\* ensure_session returned true, in that order; if either returns false
\* nothing is transmitted and the cadence is not reset; and the publisher
\* re-verifies the session itself (it calls ensure_session once more) before
\* it transmits.
C11_EnsureThenPublish ==
    (initialized /\ appState = "PUBLISHING") =>
        \A e \in PublishOutcomes :
            LET s0 == MqttLoop(St, e)
                tr == GprsEnsureConnection(s0, e)
                se == MqttEnsureConnection(tr, e)
                r == RunOp(St, e)
            IN  /\ r.sent # <<>> =>
                      /\ tr.ret /\ se.ret
                      /\ EnsuredInOrder(r.calls)
                      /\ PublisherCalls(r.calls)[1] = "mqtt.ensureConnection"
                /\ (~tr.ret \/ ~se.ret) =>
                      /\ r.sent = <<>>
                      /\ r.lastPublishTime = lastPublishTime
                      /\ r.firstRun = firstRun

\* C11 witness: a Publishing tick has ensured the transport, ensured the
\* session, entered the publisher, which ensured the session again, and
\* transmitted
C11_Witness ==
    /\ op = "run"
    /\ calls = <<"gprs.ensureConnection", "mqtt.ensureConnection",
                 "mqtt.publishSensorData", "mqtt.ensureConnection",
                 "pubsub.publish">>
    /\ PublishedOk

\* the SensorPayload publishData() builds from the last report
LastPayload ==
    [deviceId |-> DEVICE_ID, latitude |-> lastReadings.latitude,
     longitude |-> lastReadings.longitude,
     batteryLevel |-> lastReadings.batteryLevel,
     fillLevel |-> lastReadings.fillLevel]

\* one call of publishSensorData() in the current state transmits at most
\* once and returns true exactly when that transmission succeeded
C12_OneAttemptPerCall ==
    mqttClient =>
        \A e \in PublishOutcomes :
            LET r == PublishSensorData(St, e, LastPayload)
            IN  /\ Len(r.sent) <= 1
                /\ r.ret <=> (r.sent # <<>> /\ r.sent[1].ok)

\* a tick transmits at most once, and a failed transmission ends the tick as
\* a failed publish
C12_Step ==
    op' = "run" =>
        /\ Len(sent') <= 1
        /\ (sent' # <<>> /\ ~sent'[1].ok) =>
               (lastPublishTime' = lastPublishTime /\ firstRun' = firstRun)

\* C12: publish(report) makes at most one transmission attempt per call and
\* never retries: a transmission failure is returned as false, and a
\* Publishing tick therefore makes at most one transmission attempt.
C12_NoInternalRetry == []C12_OneAttemptPerCall /\ [][C12_Step]_vars

\* C12 witness: a Publishing tick has made one transmission, which failed
C12_Witness ==
    /\ PublishingTick
    /\ Len(sent) = 1
    /\ ~sent[1].ok
    /\ appState = "IDLE"

C13_Step ==
    /\ (op' = "gprs.isConnected" /\ ret' = "true") => gprsAttached
    /\ (op' = "mqtt.isConnected" /\ ret' = "true") => sockConnected
    /\ (op = "dropTransport" /\ op' = "gprs.isConnected") => ret' = "false"
    /\ (op = "dropSession" /\ op' = "mqtt.isConnected") => ret' = "false"
    /\ (op' \in {"gprs.isConnected", "mqtt.isConnected"}) =>
           (gprsAttached' = gprsAttached /\ sockConnected' = sockConnected)

\* C13: for both layers isConnected() returns true only if the underlying
\* layer (the modem's bearer, the MQTT client's connection) reports itself
\* connected at the time of the query; the query made right after a drop of
\* the underlying layer returns false.
C13_NeverFromCache == [][C13_Step]_vars

\* C13 witness: the transport was recorded connected, its bearer dropped, and
\* the query that followed answered false and recorded the loss
C13_Witness ==
    /\ op = "gprs.isConnected"
    /\ ret = "false"
    /\ initialized
    /\ gprsState = "DISCONNECTED"
    /\ ~gprsAttached

(***************************************************************************)
(* C14                                                                     *)
(***************************************************************************)
\* a tick of run() that starts in READING_SENSORS
SensingTick == op' = "run" /\ initialized /\ appState = "READING_SENSORS"

\* every measurement of the tick timed out
AllTimedOut(smp) == smp # <<>> /\ \A i \in 1..Len(smp) : smp[i] < 0

C14_Step ==
    (SensingTick /\ AllTimedOut(samples'))
        => /\ appState' = "PUBLISHING"
           /\ lastReadings'.distanceCm = Cm(-1)
           /\ lastReadings'.fillLevel = -1

\* C14: a sensor failure is a value, not an abort: when every measurement of
\* a Sensing tick times out, the tick still builds a report, with distance -1
\* and fill level -1, and the state machine still moves on to PUBLISHING
C14_SensorFailureIsAValue == [][C14_Step]_vars

\* a tick has just built the report of a sensor whose measurements all timed
\* out, and PUBLISHING is next
C14_Witness ==
    /\ op = "run"
    /\ appState = "PUBLISHING"
    /\ AllTimedOut(samples)
    /\ lastReadings.fillLevel = -1
    /\ lastReadings.distanceCm = Cm(-1)

(***************************************************************************)
(* C15                                                                     *)
(***************************************************************************)
\* the JSON document of the report rd, member by member
DocumentOf(rd) ==
    [device_id |-> DEVICE_ID,
     location |-> [latitude |-> rd.latitude, longitude |-> rd.longitude],
     battery_level |-> rd.batteryLevel,
     fill_level |-> rd.fillLevel]

C15_Step ==
    (op' = "run" /\ sent' # <<>>)
        => /\ appState = "PUBLISHING"
           /\ lastReadings' = lastReadings
           /\ \A i \in 1..Len(sent') : sent'[i].body = DocumentOf(lastReadings)

\* C15: the document a tick hands to the session layer carries exactly the
\* values of the report the Sensing step stored: fill_level (the -1 sentinel
\* included), battery_level, latitude and longitude are the report's, and
\* device_id is DEVICE_ID
C15_PayloadCarriesReport == [][C15_Step]_vars

\* a tick has transmitted the report of a failed measurement, with
\* fill_level -1
C15_Witness ==
    /\ op = "run"
    /\ sent # <<>>
    /\ lastReadings.fillLevel = -1
    /\ sent[1].body.fill_level = -1
    /\ sent[1].body.device_id = DEVICE_ID

(***************************************************************************)
(* C16                                                                     *)
(***************************************************************************)
\* (height - d) / height * 100 rounded to the nearest integer, halves up, for
\* 0 <= d <= height
RoundedFill(d, height) ==
    LET part == (height * d.den - d.num) * 100
        whole == height * d.den
    IN  (2 * part + whole) \div (2 * whole)

\* a Sensing tick has just stored a valid distance that is within the container
SensedWithinContainer ==
    /\ op = "run"
    /\ appState = "PUBLISHING"
    /\ trashCanHeight > 0
    /\ lastReadings.distanceCm.num >= 0
    /\ lastReadings.distanceCm.num <= trashCanHeight * lastReadings.distanceCm.den

\* C16: for every valid distance d and container height H > 0 with
\* 0 <= d <= H, the fill level the Sensing step computes is
\* (H - d) / H * 100 rounded to the nearest integer, and lies in 0..100
C16_FillLevelRounded ==
    SensedWithinContainer
        => /\ lastReadings.fillLevel = RoundedFill(lastReadings.distanceCm, trashCanHeight)
           /\ lastReadings.fillLevel \in 0..100

(***************************************************************************)
(* C17                                                                     *)
(***************************************************************************)
\* the distance d is negative, below SENSOR_MIN_DISTANCE_CM or above
\* SENSOR_MAX_DISTANCE_CM
OutOfRange(d) ==
    \/ d.num < 0
    \/ d.num < SENSOR_MIN_DISTANCE_CM * d.den
    \/ d.num > SENSOR_MAX_DISTANCE_CM * d.den

C17_Step ==
    (SensingTick /\ OutOfRange(MeasureDistanceAvgCm(samples')))
        => /\ lastReadings'.fillLevel = -1
           /\ lastReadings'.distanceCm = Cm(-1)

\* C17: when the distance the sensor layer is given (the driver's averaged
\* measurement) is outside [SENSOR_MIN_DISTANCE_CM, SENSOR_MAX_DISTANCE_CM]
\* or negative, the fill level of the report is exactly -1, never a clamped
\* 0 or 100
C17_OutOfRangeIsSentinel == [][C17_Step]_vars

\* a Sensing tick has measured more than SENSOR_MAX_DISTANCE_CM and has
\* reported fill level -1
C17_Witness ==
    /\ op = "run"
    /\ appState = "PUBLISHING"
    /\ samples # <<>>
    /\ MeasureDistanceAvgCm(samples).num
          > SENSOR_MAX_DISTANCE_CM * MeasureDistanceAvgCm(samples).den
    /\ lastReadings.fillLevel = -1

(***************************************************************************)
(* C18                                                                     *)
(***************************************************************************)
\* the measurements that are valid: not timed out and within
\* [SENSOR_MIN_DISTANCE_CM, SENSOR_MAX_DISTANCE_CM]
InRangeSamples(smp) ==
    {i \in 1..Len(smp) : /\ smp[i] >= SENSOR_MIN_DISTANCE_CM
                         /\ smp[i] <= SENSOR_MAX_DISTANCE_CM}

\* the sum of the valid measurements
SumInRange(smp) ==
    LET sum[n \in 0..Len(smp)] ==
            IF n = 0 THEN 0
            ELSE sum[n - 1] + (IF n \in InRangeSamples(smp) THEN smp[n] ELSE 0)
    IN  sum[Len(smp)]

\* C18: after a Sensing tick over n measurements of which k are invalid
\* (timed out, or outside [SENSOR_MIN_DISTANCE_CM, SENSOR_MAX_DISTANCE_CM]),
\* the sampled distance is the mean of the n - k valid measurements only, and
\* is the sentinel -1 when k = n
C18_MeanOfValidSamples ==
    (op = "run" /\ appState = "PUBLISHING" /\ samples # <<>>)
        => LET valid == Cardinality(InRangeSamples(samples))
               d == lastReadings.distanceCm
           IN  IF valid = 0 THEN d = Cm(-1)
               ELSE d.num * valid = SumInRange(samples) * d.den

(***************************************************************************)
(* C19                                                                     *)
(***************************************************************************)
C19_Step ==
    (op = "forcePublish" /\ initialized /\ appState = "IDLE" /\ op' = "run")
        => appState' = "READING_SENSORS"

\* C19: after forcePublish() is called in IDLE, the next tick moves to
\* READING_SENSORS, whatever the clock reads and whatever the publish
\* interval is
C19_ForcePublishIsImmediate == [][C19_Step]_vars

(***************************************************************************)
(* C20                                                                     *)
(***************************************************************************)
\* ensureConnection() went past its dwell test and tried to reconnect
Attempted(cs) == \E i \in 1..Len(cs) : cs[i] = "gprs.ensureConnection"

C20_Step ==
    /\ (op' = "run" /\ initialized /\ appState = "IDLE" /\ ~firstRun)
          => (appState' = "READING_SENSORS" <=> elapsed >= publishInterval)
    /\ (op' = "mqtt.ensureConnection" /\ mqttClient /\ ~sockConnected)
          => (Attempted(calls') <=> sinceAttempt >= MQTT_RECONNECT_DELAY_MS)

\* C20: the elapsed-time tests are safe when the clock rolls over: when e ms,
\* less than one turn of the clock, have really passed since the last
\* successful publish, an Idle tick moves to READING_SENSORS if and only if
\* e >= the publish interval; when e ms have really passed since the last
\* reconnect attempt, ensureConnection() on a lost session attempts to
\* reconnect if and only if e >= MQTT_RECONNECT_DELAY_MS
C20_WraparoundSafe == [][C20_Step]_vars

\* the clock has rolled over since the last publish, a whole interval has
\* passed, and the Idle tick has moved to READING_SENSORS
C20_Witness ==
    /\ op = "run"
    /\ appState = "READING_SENSORS"
    /\ now < lastPublishTime
    /\ publishInterval > 0
    /\ elapsed >= publishInterval

(***************************************************************************)
(* C21                                                                     *)
(***************************************************************************)
\* a tick of run() that starts in IDLE
IdleTickStep == op' = "run" /\ initialized /\ appState = "IDLE"

\* a tick of run() in PUBLISHING that publishes successfully
SuccessStep == op' = "run" /\ initialized /\ appState = "PUBLISHING" /\ PublishedOk'

\* a publish attempt has been made since boot: in IDLE, a report has been
\* sensed only if the Publishing step that follows Sensing has run as well
AttemptMade == samples # <<>>

\* two successful publishes are at least the interval apart: a success after
\* the first one happens when at least the interval has passed since
\* _lastPublishTime, which only init() and a success set
C21_Separation ==
    /\ (SuccessStep /\ ~firstRun) => elapsed >= publishInterval
    /\ (lastPublishTime' # lastPublishTime) =>
            \/ SuccessStep /\ lastPublishTime' = now'
            \/ op' = "init"

\* C21 as stated: successes are at least the interval apart, and only one
\* attempt is started without regard to the interval: once an attempt has
\* been made, an Idle tick moves to READING_SENSORS only when the interval
\* has passed
C21_NoDoublePublish ==
    [][/\ C21_Separation
       /\ (IdleTickStep /\ AttemptMade /\ elapsed < publishInterval)
              => appState' = "IDLE"]_vars

C21_Step ==
    /\ C21_Separation
    /\ (IdleTickStep /\ firstRun) => appState' = "READING_SENSORS"
    /\ (IdleTickStep /\ ~firstRun /\ elapsed < publishInterval)
              => appState' = "IDLE"

\* C21, amended: with no forcePublish()/setPublishInterval() call, two
\* successful publishes are at least the interval apart; attempts are started
\* without regard to the interval on every Idle tick from boot until the first
\* success (one attempt when the first one succeeds), and never after it
C21_OneCycleUntilSuccess == [][C21_Step]_vars

\* the first attempt has failed and, before the interval has passed, an Idle
\* tick has started another one
C21_Witness ==
    /\ op = "run"
    /\ appState = "READING_SENSORS"
    /\ firstRun
    /\ AttemptMade
    /\ elapsed < publishInterval

(***************************************************************************)
(* C22                                                                     *)
(***************************************************************************)
\* the test of shouldPublish() in the current state
PublishDue == firstRun \/ USub(now, lastPublishTime) >= publishInterval

C22_Step ==
    /\ (appState' # appState) => op' \in {"init", "run"}
    /\ (op' = "run") =>
          CASE appState = "IDLE" ->
                  appState' = (IF initialized /\ PublishDue
                               THEN "READING_SENSORS" ELSE "IDLE")
            [] appState = "READING_SENSORS" -> appState' = "PUBLISHING"
            [] appState = "PUBLISHING" -> appState' = "IDLE"
            [] appState = "ERROR" -> appState' \in {"IDLE", "ERROR"}
            [] OTHER -> appState' = appState

\* C22: the application state changes only inside init() or run(), and one
\* tick of run() makes one step at most: IDLE to READING_SENSORS exactly when
\* shouldPublish() holds and IDLE to IDLE otherwise, READING_SENSORS to
\* PUBLISHING always, PUBLISHING to IDLE always, ERROR to IDLE or ERROR
C22_OneStepPerTick == [][C22_Step]_vars

\* in steady state an Idle tick has found the interval passed and has moved
\* to READING_SENSORS, no further
C22_Witness ==
    /\ op = "run"
    /\ appState = "READING_SENSORS"
    /\ ~firstRun
    /\ calls = <<>>

(***************************************************************************)
(* C23                                                                     *)
(***************************************************************************)
\* C23: the SLEEP state is unreachable: after any sequence of init(), run(),
\* forcePublish() and setPublishInterval() calls the application state is
\* never SLEEP
C23_SleepUnreachable == appState \in AppStates \ {"SLEEP"}

\* an Idle tick in steady state has found nothing to publish, and the
\* application is still in IDLE
C23_Witness ==
    /\ op = "run"
    /\ initialized
    /\ ~firstRun
    /\ appState = "IDLE"
    /\ ~PublishDue
    /\ calls = <<>>

(***************************************************************************)
(* C24                                                                     *)
(***************************************************************************)
C24_Step ==
    /\ (appState # "ERROR" /\ appState' = "ERROR") => (op' = "init" /\ ret' # "true")
    /\ (op' = "run" /\ initialized /\ appState = "PUBLISHING" /\ ~PublishedOk')
          => appState' = "IDLE"

\* C24: ERROR is entered only by an init() that fails: no tick, whatever
\* fails during it, and no loss of connectivity puts the application into
\* ERROR, and a failed publish leads back to IDLE
C24_ErrorOnlyFromInit == [][C24_Step]_vars

\* after a successful init(), a Publishing tick has failed over a transport
\* that is down, and the application is back in IDLE
C24_Witness ==
    /\ PublishingTick
    /\ ~PublishedOk
    /\ initialized
    /\ gprsState # "CONNECTED"
    /\ appState = "IDLE"

(***************************************************************************)
(* C25                                                                     *)
(***************************************************************************)
\* a tick of run() that starts in PUBLISHING
PublishingStep == op' = "run" /\ initialized /\ appState = "PUBLISHING"

C25_Step ==
    /\ (lastReadings' # lastReadings) => SensingTick
    /\ (appState # "PUBLISHING" /\ appState' = "PUBLISHING")
          => /\ SensingTick
             /\ lastReadings'.distanceCm
                    = GetDistanceAvg(MeasureDistanceAvgCm(samples')).distanceCm
    /\ (appState = "PUBLISHING" /\ appState' = "PUBLISHING")
          => (op' # "run" /\ lastReadings' = lastReadings)
    /\ PublishingStep
          => /\ appState' = "IDLE"
             /\ Len(sent') <= 1
             /\ \A i \in 1..Len(sent') : sent'[i].body = DocumentOf(lastReadings)

\* C25: each report is consumed once: PUBLISHING is entered only by the
\* Sensing tick that builds the report, nothing changes the report until the
\* Publishing tick that follows, that tick hands this report to the publisher
\* (at most one transmission) and leaves PUBLISHING whether the publish
\* succeeds or fails, so no report reaches a second Publishing step
C25_ReportConsumedOnce == [][C25_Step]_vars

\* a Publishing tick has failed to transmit its report and is back in IDLE
\* with the cadence still due: the next cycle senses afresh
C25_Witness ==
    /\ PublishingTick
    /\ sent # <<>>
    /\ ~PublishedOk
    /\ appState = "IDLE"
    /\ PublishDue

(***************************************************************************)
(* C26                                                                     *)
(***************************************************************************)
\* the topic of the device id: "smartwaste/<device_id>/data"
TopicOf(id) == "smartwaste/" \o id \o "/data"

C26_Step ==
    (op' = "mqtt.publishSensorData")
        => \A i \in 1..Len(sent') :
              sent'[i].topic = TopicOf(sent'[i].body.device_id)

\* C26: the publish topic is a function of the device identifier alone: for
\* every device id it is prefix, "/", the id, "/", suffix in one string, that
\* is "smartwaste/<device_id>/data", so two publishes of one device use the
\* same topic
C26_TopicOfDevice ==
    /\ [](\A id \in DeviceIds : BuildTopic(id) = TopicOf(id))
    /\ [][C26_Step]_vars

\* a payload of a device other than the configured one has been transmitted
\* on that device's topic
C26_Witness ==
    /\ op = "mqtt.publishSensorData"
    /\ sent # <<>>
    /\ sent[1].body.device_id = "bin_42"
    /\ sent[1].topic = "smartwaste/bin_42/data"

(***************************************************************************)
(* C27                                                                     *)
(***************************************************************************)
\* C27: every blocking call completes or times out internally: init(), and
\* the modem restart of the recovery, always return, also when the modem
\* never answers
C27_BringUpTerminates == ~hung /\ ret # "hung"

(***************************************************************************)
(* C28                                                                     *)
(***************************************************************************)
\* ticks of run() keep occurring
TicksKeepOccurring == []<><<op' = "run">>_vars

\* C28: after a successful init(), while ticks keep occurring and the clock
\* keeps advancing, READING_SENSORS is entered again and again, and every
\* stay in READING_SENSORS or PUBLISHING ends in IDLE, whether the publishes
\* succeed or fail
C28_PeriodicPublishing ==
    TicksKeepOccurring =>
        /\ [](initialized => <>(appState = "READING_SENSORS"))
        /\ ((appState \in {"READING_SENSORS", "PUBLISHING"}) ~> (appState = "IDLE"))

\* in steady state, a whole interval after the last success, an Idle tick
\* has started the next cycle
C28_Witness ==
    /\ op = "run"
    /\ appState = "READING_SENSORS"
    /\ ~firstRun
    /\ now # lastPublishTime
    /\ elapsed >= publishInterval

(***************************************************************************)
(* C29                                                                     *)
(***************************************************************************)
\* how many times the collaborator call c was made
CountCalls(cs, c) == Cardinality({i \in 1..Len(cs) : cs[i] = c})

\* one call of GprsManager::ensureConnection() on a modem that is ready waits for
\* registration once at most, attaches once at most, returns, and returns
\* false when the wait or the attach failed
C29_OnePassPerCall ==
    ModemIsReady(St) =>
    \A e \in NetOutcomes :
        LET r == GprsEnsureConnection(St, e)
        IN  /\ ~r.hung
            /\ CountCalls(r.calls, "modem.waitForNetwork") <= 1
            /\ CountCalls(r.calls, "modem.gprsConnect") <= 1
            /\ r.ret <=> (r.netRegistered /\ r.gprsAttached)

\* a tick makes one registration wait and one attach attempt at most, and
\* only a Publishing tick calls ensureConnection() of the transport
C29_Step ==
    (op' = "run") =>
        /\ CountCalls(calls', "modem.waitForNetwork") <= 1
        /\ CountCalls(calls', "modem.gprsConnect") <= 1
        /\ CountCalls(calls', "gprs.ensureConnection") > 0 => appState = "PUBLISHING"

\* C29: a single ensureConnection() call of the transport makes at most one
\* registration wait and at most one attach attempt and reports a failure to
\* its caller instead of looping; it is tried again only when a later
\* Publishing tick calls it again
C29_NoSilentRetry == []C29_OnePassPerCall /\ [][C29_Step]_vars

\* a Publishing tick has found the transport down, has tried to attach once,
\* has failed and has given up the publish
C29_Witness ==
    /\ PublishingTick
    /\ CountCalls(calls, "modem.gprsConnect") = 1
    /\ ~gprsAttached
    /\ sent = <<>>
    /\ appState = "IDLE"

(***************************************************************************)
(* C30                                                                     *)
(***************************************************************************)
\* GprsManager::isConnected() would answer false now
TransportReportsDown == gprsState # "CONNECTED" \/ ~gprsAttached

\* connect() of the session layer, called while the transport reports down,
\* returns false with state ERROR and does not call PubSubClient::connect
C30_ConnectRefused ==
    (mqttClient /\ TransportReportsDown) =>
        \A e \in NetOutcomes :
            LET r == MqttConnect(St, e)
            IN  /\ ~r.ret
                /\ r.mqttState = "ERROR"
                /\ CountCalls(r.calls, "pubsub.connect") = 0

\* ensureConnection() of the session layer reaches connect() only after
\* ensureConnection() of the transport was called and left the transport up
C30_EnsureOrder ==
    mqttClient =>
        \A e \in NetOutcomes :
            LET r == MqttEnsureConnection(St, e)
            IN  CountCalls(r.calls, "mqtt.connect") > 0
                    => /\ FirstIndex(r.calls, "gprs.ensureConnection") > 0
                       /\ FirstIndex(r.calls, "gprs.ensureConnection")
                              < FirstIndex(r.calls, "mqtt.connect")
                       /\ r.gprsState = "CONNECTED"
                       /\ r.gprsAttached

\* whatever operation ran, PubSubClient::connect was called only with the
\* transport up
C30_Step ==
    CountCalls(calls', "pubsub.connect") > 0
        => (gprsState' = "CONNECTED" /\ gprsAttached')

\* C30: the session-level connect is never attempted while the transport is
\* down: connect(), from init(), from ensureConnection() or from the
\* recovery, checks isConnected() of the transport first and, when it is
\* false, returns false with session state ERROR without calling
\* PubSubClient::connect; ensureConnection() reaches connect() only after
\* ensureConnection() of the transport returned true
C30_NoSessionWithoutTransport ==
    /\ []C30_ConnectRefused
    /\ []C30_EnsureOrder
    /\ [][C30_Step]_vars

\* the recovery has called connect() of the session layer with the transport
\* down: it was refused, nothing was sent to the broker, the state is ERROR
C30_Witness ==
    /\ op = "run"
    /\ CountCalls(calls, "mqtt.connect") = 1
    /\ CountCalls(calls, "pubsub.connect") = 0
    /\ TransportReportsDown
    /\ mqttState = "ERROR"


\* the tick just returned spent the retry delay of handleError()
RecoveryWaited == \E i \in 1..Len(calls) : calls[i] = "delay"

C31_Step ==
    (op' = "run" /\ appState = "ERROR" /\ initialized /\ ~hung') =>
        /\ ~(TransportHealthy' /\ SessionHealthy') =>
               (RecoveryWaited' /\ appState' = "ERROR")
        /\ (TransportHealthy' /\ SessionHealthy') =>
               (~RecoveryWaited' /\ appState' = "IDLE")

\* C31: a Recovering tick that leaves the transport or the session unhealthy
\* waits ERROR_RETRY_DELAY_MS before it returns and stays in ERROR; a
\* Recovering tick that leaves both healthy does not wait and moves to IDLE.
C31_WaitBetweenAttempts == [][C31_Step]_vars

\* the same with health as handleError() tests it: modem ready and transport
\* connected
C31_CodeHealth ==
    [][(op' = "run" /\ appState = "ERROR" /\ initialized /\ ~hung') =>
          /\ ~(ModemIsReady(St)' /\ TransportHealthy') =>
                 (RecoveryWaited' /\ appState' = "ERROR"
                    /\ Forward(now, now') >= ERROR_RETRY_DELAY_MS)
          /\ (ModemIsReady(St)' /\ TransportHealthy') =>
                 (~RecoveryWaited' /\ appState' = "IDLE")]_vars

(***************************************************************************)
(* C32                                                                     *)
(***************************************************************************)
C32_Step ==
    (SensingTick /\ trashCanHeight > 0) =>
        /\ lastReadings'.fillLevel \in {-1} \cup (0..100)
        /\ lastReadings'.fillLevel = -1
              <=> OutOfRange(MeasureDistanceAvgCm(samples'))
        /\ lastReadings'.fillLevel = -1
              <=> lastReadings'.distanceCm = Cm(-1)

\* C32: with a container height > 0, the fill level of every report built by
\* a Sensing tick is -1 or within 0..100, and it is -1 exactly when the
\* sensor layer found the reading invalid, which is exactly when the
\* reported distance is -1: a valid reading never yields -1, however far
\* the echo
C32_SentinelOnlyForInvalid == [][C32_Step]_vars

\* a Sensing tick has measured a valid distance beyond the container's
\* height and has reported fill level 0
C32_Witness ==
    /\ op = "run"
    /\ appState = "PUBLISHING"
    /\ samples # <<>>
    /\ ~OutOfRange(MeasureDistanceAvgCm(samples))
    /\ MeasureDistanceAvgCm(samples).num
          > trashCanHeight * MeasureDistanceAvgCm(samples).den
    /\ lastReadings.fillLevel = 0

(***************************************************************************)
(* The location provider, in both builds of the firmware.                  *)
(***************************************************************************)
\* polls that fail before the fix: none, one, the last poll within
\* GPS_TIMEOUT_MS, the first poll after it, or no fix at all
FixPolls ==
    {NoFix, 0, 1, GPS_TIMEOUT_MS \div GPS_POLL_DELAY_MS - 1,
     GPS_TIMEOUT_MS \div GPS_POLL_DELAY_MS}

\* what the GPS receiver does during one operation
GpsOutcomes ==
    {[NoOutcome EXCEPT !.fixAfter = k, !.fixPos = p] :
        k \in FixPolls, p \in FixPositions}

\* timeouts getLocation() is called with
LocateTimeouts == {0, 1, GPS_POLL_DELAY_MS, GPS_TIMEOUT_MS}

\* the state after construction, of the build with GPS_ENABLED or without
InitGps ==
    /\ appState = "INIT"
    /\ lastPublishTime = 0
    /\ publishInterval = PUBLISH_INTERVAL_MS
    /\ initialized = FALSE
    /\ firstRun = TRUE
    /\ lastReadings = [distanceCm |-> Cm(0), fillLevel |-> 0, latitude |-> 0,
                       longitude |-> 0, batteryLevel |-> 0, gpsValid |-> FALSE]
    /\ modemStatus = "OFF"
    /\ gprsState = "DISCONNECTED"
    /\ mqttState = "DISCONNECTED"
    /\ lastReconnectAttempt = 0
    /\ mqttClient = FALSE
    /\ now = 0
    /\ netRegistered = FALSE
    /\ gprsAttached = FALSE
    /\ sockConnected = FALSE
    /\ hung = FALSE
    /\ op = "boot"
    /\ ret = "void"
    /\ calls = <<>>
    /\ sent = <<>>
    /\ trashCanHeight = TRASH_CAN_HEIGHT_CM
    /\ samples = <<>>
    /\ elapsed = 0
    /\ sinceAttempt = 0
    /\ gpsBuild \in BOOLEAN
    /\ gpsEnabled = FALSE
    /\ gpsLoc = DefaultLocation

\* SmartWasteApp::init(), once, over a healthy network; the GPS receiver
\* powers on or not
SetupGps ==
    /\ ~hung
    /\ appState = "INIT"
    /\ \E g \in BOOLEAN :
          LET r == AppInitOp(St, [NoOutcome EXCEPT !.gpsOn = g])
          IN  CommitState(r, "init", Bool(r.ret))

\* SmartWasteApp::run(), one tick of loop(), over a healthy network
SenseGps ==
    /\ ~hung
    /\ now <= MaxClock
    /\ \E e \in (IF appState = "READING_SENSORS" THEN GpsOutcomes ELSE {NoOutcome}) :
          CommitState(RunOp(St, e), "run", "void")

\* GpsHAL::enable()
EnableGps ==
    /\ ~hung
    /\ \E g \in BOOLEAN :
          LET r == GpsEnable(St, [NoOutcome EXCEPT !.gpsOn = g])
          IN  CommitState(r, "gps.enable", Bool(r.ret))

\* GpsHAL::disable()
DisableGps ==
    /\ ~hung
    /\ CommitState(GpsDisable(St), "gps.disable", "void")

\* GpsHAL::getLocation(timeout)
Locate ==
    /\ ~hung
    /\ now <= MaxClock
    /\ \E e \in GpsOutcomes, t \in LocateTimeouts :
          CommitState(GetLocation(St, e, t), "gps.getLocation", "void")

NextGps ==
    \/ SetupGps
    \/ SenseGps
    \/ EnableGps
    \/ DisableGps
    \/ Locate
    \/ AdvanceClock

SpecGps == InitGps /\ [][NextGps]_vars

(***************************************************************************)
(* C33                                                                     *)
(***************************************************************************)
\* getLocation(t), called now while the receiver behaves as e says, gets a
\* fix: the receiver is enabled and a poll started before t ms have passed
\* succeeds
LiveFix(e, t) ==
    /\ gpsEnabled
    /\ e.fixAfter # NoFix
    /\ e.fixAfter * GPS_POLL_DELAY_MS < t

C33_Provider ==
    \A e \in GpsOutcomes, t \in LocateTimeouts :
        LET loc == GetLocation(St, e, t).gpsLoc
        IN  /\ LiveFix(e, t) =>
                 loc = [valid |-> TRUE, latitude |-> e.fixPos.latitude,
                        longitude |-> e.fixPos.longitude]
            /\ ~LiveFix(e, t) =>
                 loc = [valid |-> FALSE, latitude |-> DEFAULT_LATITUDE,
                        longitude |-> DEFAULT_LONGITUDE]

C33_Step ==
    SensingTick =>
        IF gpsBuild
        THEN /\ lastReadings'.gpsValid = gpsLoc'.valid
             /\ lastReadings'.latitude = gpsLoc'.latitude
             /\ lastReadings'.longitude = gpsLoc'.longitude
             /\ gpsLoc'.valid => gpsEnabled
        ELSE /\ ~lastReadings'.gpsValid
             /\ lastReadings'.latitude = DEFAULT_LATITUDE
             /\ lastReadings'.longitude = DEFAULT_LONGITUDE

\* C33: getLocation() returns valid = true only with the coordinates of a
\* fix obtained from an enabled receiver within the timeout; when the
\* receiver is not enabled or no fix comes within the timeout it returns the
\* configured default coordinates with valid = false. The report of a
\* Sensing tick carries the location and the validity flag the provider
\* returned, and the default coordinates with gpsValid = false in the build
\* without GPS.
C33_LocationFallback == []C33_Provider /\ [][C33_Step]_vars

\* a Sensing tick of the GPS build has reported a live fix away from the
\* default coordinates
C33_Witness ==
    /\ op = "run"
    /\ gpsBuild
    /\ appState = "PUBLISHING"
    /\ gpsLoc.valid
    /\ lastReadings.gpsValid
    /\ lastReadings.latitude = London.latitude
    /\ lastReadings.longitude = London.longitude

(***************************************************************************)
(* C34                                                                     *)
(***************************************************************************)
C34_Step ==
    (op' = "run" /\ ~initialized) =>
        /\ appState' = appState
        /\ lastPublishTime' = lastPublishTime
        /\ publishInterval' = publishInterval
        /\ firstRun' = firstRun
        /\ lastReadings' = lastReadings
        /\ ~initialized'
        /\ modemStatus' = modemStatus
        /\ gprsState' = gprsState
        /\ mqttState' = mqttState
        /\ lastReconnectAttempt' = lastReconnectAttempt
        /\ now' = now
        /\ calls' = <<>>
        /\ sent' = <<>>

\* a tick has just called a collaborator or transmitted
TickActed == op = "run" /\ (calls # <<>> \/ sent # <<>>)

\* C34: while init() has not returned true (_initialized is false), a tick
\* is a no-op: it leaves the application state, the cadence fields, the last
\* report and the layers' states unchanged, reads no sensor, calls no
\* connectivity operation, publishes nothing and takes no time; so a tick
\* calls a collaborator or transmits only after init() has succeeded.
C34_NothingBeforeInit == [](TickActed => initialized) /\ [][C34_Step]_vars

\* a tick has just run in ERROR after a failed init() and has done nothing
C34_Witness ==
    /\ op = "run"
    /\ ~initialized
    /\ appState = "ERROR"
    /\ calls = <<>>
    /\ sent = <<>>

(***************************************************************************)
(* The two layers with every public operation that writes their state.    *)
(***************************************************************************)
\* GprsManager::connect(timeout)
ConnectTransport ==
    /\ ~hung
    /\ \E e \in NetOutcomes :
          LET r == GprsConnect(St, e)
          IN  Commit(r, "gprs.connect", Bool(r.ret))

\* MqttService::connect(); before init() it can only be called with the
\* transport down (_mqtt is a null pointer)
ConnectSession ==
    /\ ~hung
    /\ mqttClient \/ ~GprsIsConnected(St).ret
    /\ \E e \in NetOutcomes :
          LET r == MqttConnect(St, e)
          IN  Commit(r, "mqtt.connect", Bool(r.ret))

\* GprsManager::disconnect()
DisconnectTransport ==
    /\ ~hung
    /\ \E keepSock \in BOOLEAN :
          Commit(GprsDisconnect(St, keepSock), "gprs.disconnect", "void")

\* MqttService::disconnect()
DisconnectSession ==
    /\ ~hung
    /\ Commit(MqttDisconnect(St), "mqtt.disconnect", "void")

NextLayers ==
    \/ Setup
    \/ ConnectTransport
    \/ ConnectSession
    \/ DisconnectTransport
    \/ DisconnectSession
    \/ EnsureTransport
    \/ EnsureSession
    \/ QueryTransport
    \/ QuerySession
    \/ PublishPayload
    \/ AdvanceClock
    \/ DropTransport
    \/ DropSession

SpecLayers == Init /\ [][NextLayers]_vars

(***************************************************************************)
(* C35                                                                     *)
(***************************************************************************)
\* the states a layer can be found in between operations
SettledStates == {"DISCONNECTED", "CONNECTED", "ERROR"}

\* C35: CONNECTING is transient on both layers: after any public operation
\* of GprsManager or MqttService has returned (connect, ensureConnection,
\* isConnected, disconnect, publishSensorData), the recorded state of each
\* layer is DISCONNECTED, CONNECTED or ERROR, never CONNECTING.
C35_ConnectingIsTransient ==
    ~hung => (gprsState \in SettledStates /\ mqttState \in SettledStates)

\* GprsManager::connect() has gone through CONNECTING, failed to register
\* and returned false with the fault recorded
C35_Witness ==
    /\ op = "gprs.connect"
    /\ ret = "false"
    /\ \E i \in 1..Len(calls) : calls[i] = "modem.waitForNetwork"
    /\ gprsState = "ERROR"

(***************************************************************************)
(* C36                                                                     *)
(***************************************************************************)
\* no reconnect attempt was made since boot and the clock still reads less
\* than the dwell time (in these behaviours the clock does not wrap, and an
\* attempt records a time of at least MQTT_RECONNECT_DELAY_MS)
EarlyAfterBoot ==
    /\ lastReconnectAttempt = 0
    /\ sinceAttempt = now
    /\ now < MQTT_RECONNECT_DELAY_MS

C36_Step ==
    (op' = "mqtt.ensureConnection" /\ ~sockConnected /\ EarlyAfterBoot) =>
        /\ ret' = "false"
        /\ calls' = <<"mqtt.ensureConnection">>
        /\ lastReconnectAttempt' = 0
        /\ ~sockConnected'
        /\ mqttState' # "CONNECTED"

\* C36: the dwell window is also measured from clock value 0 at boot:
\* _lastReconnectAttempt starts at 0, so while millis() reads less than
\* MQTT_RECONNECT_DELAY_MS an ensureConnection() call that finds the session
\* disconnected returns false without calling the transport's
\* ensureConnection() or connect(), although no reconnect attempt was made yet
C36_DwellFromBoot == [][C36_Step]_vars

\* the session was lost right after a successful bring-up, and the first
\* ensureConnection() since boot has returned false without trying
C36_Witness ==
    /\ op = "mqtt.ensureConnection"
    /\ ret = "false"
    /\ initialized
    /\ lastReconnectAttempt = 0
    /\ now < MQTT_RECONNECT_DELAY_MS
    /\ ~sockConnected
    /\ calls = <<"mqtt.ensureConnection">>

(***************************************************************************)
(* C37                                                                     *)
(***************************************************************************)
\* the two layers queried and connected by a caller that may run init()
\* again, so that the modem can be found not ready under a live bearer
NextQuery ==
    \/ AppInit
    \/ ConnectTransport
    \/ ConnectSession
    \/ QueryTransport
    \/ QuerySession
    \/ DropTransport
    \/ DropSession

SpecQuery == Init /\ [][NextQuery]_vars

C37_Step ==
    /\ op' = "gprs.isConnected" =>
          /\ gprsState' = (IF gprsState = "CONNECTED" /\ ~gprsAttached
                           THEN "DISCONNECTED" ELSE gprsState)
          /\ gprsState # "CONNECTED" => ret' = "false"
          /\ mqttState' = mqttState
    /\ op' = "mqtt.isConnected" =>
          /\ mqttState' = (IF mqttState = "CONNECTED" /\ ~sockConnected
                           THEN "DISCONNECTED" ELSE mqttState)
          /\ gprsState' = gprsState

\* C37: isConnected() only ever downgrades the recorded state: on either
\* layer it turns CONNECTED into DISCONNECTED when the underlying layer
\* reports the connection gone and otherwise leaves the recorded state, ERROR
\* included, as it is, so it never turns a state into CONNECTED; on the
\* transport layer it returns false whenever the recorded state is not
\* CONNECTED, whatever the bearer reports. Neither query writes the other
\* layer's state.
C37_QueriesOnlyDowngrade == [][C37_Step]_vars

\* the transport's query has answered false with the bearer up, because the
\* recorded state was ERROR, and has left it ERROR
C37_Witness ==
    /\ op = "gprs.isConnected"
    /\ ret = "false"
    /\ gprsAttached
    /\ gprsState = "ERROR"

\* the session's query has answered true and has left the recorded state ERROR
C37_WitnessSession ==
    /\ op = "mqtt.isConnected"
    /\ ret = "true"
    /\ mqttState = "ERROR"

(***************************************************************************)
(* The produced interface with its getters.                                *)
(***************************************************************************)
\* SmartWasteApp::getState()
GetState ==
    /\ ~hung
    /\ LET r == GetStateOp(St) IN Commit(r, "getState", r.ret)

\* SmartWasteApp::getLastReadings(); the report it returns is the retained
\* one, which lastReadings shows
GetLastReadings ==
    /\ ~hung
    /\ LET r == GetLastReadingsOp(St)
       IN  Commit(r, "getLastReadings",
                  IF r.ret = r.lastReadings THEN "lastReadings" ELSE "other")

NextConfig ==
    \/ Setup
    \/ Run
    \/ ForcePublish
    \/ SetPublishInterval
    \/ GetState
    \/ GetLastReadings
    \/ AdvanceClock

SpecConfig == Init /\ [][NextConfig]_vars

(***************************************************************************)
(* C38                                                                     *)
(***************************************************************************)
\* the program's fields other than the two cadence settings
FieldsBesideCadence ==
    <<appState, initialized, firstRun, lastReadings, trashCanHeight,
      modemStatus, gprsState, mqttState, lastReconnectAttempt, mqttClient,
      netRegistered, gprsAttached, sockConnected, gpsEnabled, now>>

C38_Step ==
    /\ op' = "setPublishInterval" =>
          /\ lastPublishTime' = lastPublishTime
          /\ FieldsBesideCadence' = FieldsBesideCadence
    /\ op' = "forcePublish" =>
          /\ lastPublishTime' = 0
          /\ publishInterval' = publishInterval
          /\ FieldsBesideCadence' = FieldsBesideCadence
    /\ op' \in {"getState", "getLastReadings"} =>
          /\ lastPublishTime' = lastPublishTime
          /\ publishInterval' = publishInterval
          /\ FieldsBesideCadence' = FieldsBesideCadence
    /\ op' = "getState" => ret' = appState
    /\ op' = "getLastReadings" => ret' = "lastReadings"
    /\ op' \in {"setPublishInterval", "forcePublish", "getState",
                "getLastReadings"} => (calls' = <<>> /\ sent' = <<>>)

\* C38: the configuration operations have narrow effects:
\* setPublishInterval(ms) changes only _publishInterval, forcePublish()
\* changes only _lastPublishTime, and neither changes the application
\* state, _firstRun or the retained report; getState() and getLastReadings()
\* change nothing and return the state and the retained report.
C38_NarrowEffects == [][C38_Step]_vars

\* forcePublish() has cleared the time of a publish made after boot, with
\* the first-run flag still cleared and the report retained
C38_Witness ==
    /\ op = "forcePublish"
    /\ initialized
    /\ ~firstRun
    /\ now > 0
    /\ lastPublishTime = 0
    /\ elapsed = now
    /\ lastReadings.batteryLevel = SIMULATED_BATTERY_LEVEL


















====
